---------------------------- MODULE Spec2Model ----------------------------
(***************************************************************************)
(* Pixie core: the photo lifecycle (upload, read, trash, restore, purge,   *)
(* legacy delete) with its dual writes across the object store and the     *)
(* photos table, the photo.uploaded fan-out to the thumbnail worker, and   *)
(* the auth service (token mint, validate, revoke, blacklist sweeper).     *)
(*                                                                         *)
(* Spec      the HTTP front door for photos plus the thumbnail worker.     *)
(*           Requests are those the auth middleware admitted.  Every       *)
(*           outbound I/O call of a handler is one step, so handlers of    *)
(*           concurrent requests interleave at the I/O calls.              *)
(* SpecAuth  the auth service over a clock.                                *)
(***************************************************************************)
EXTENDS Integers, Sequences, FiniteSets, TLC

(***************************************************************************)
(* Bounds                                                                  *)
(***************************************************************************)
\* number of uploads (UUIDs allocated) in a run
MaxPhotos == 1
\* rows (with their blobs and thumbnails) already stored when the process boots
NumSeed == 0
\* number of multi-call HTTP handlers in flight at once (the single-statement
\* handlers run at any time)
NumProcs == 1
\* number of injected failures of store / bus calls in a run
MaxFaults == 1
\* number of query-parameter token validations in a run of Spec
MaxQueryValidations == 1
\* last clock value of SpecAuth (clock unit: 12 hours)
MaxTime == 3
\* number of distinct token strings revoked in a run of SpecAuth
MaxRevoked == 1
\* number of tokens minted in a run of SpecAuth
MaxTokens == 1
\* number of limiter tokens a run of SpecAuth takes out of a full bucket
\* (the whole burst, so that the bucket runs dry)
MaxValidations == 30
\* validations the gated requests make out of a full bucket before a burst
\* of other clients' validations empties it
MaxGateValidations == 2
\* rows the users table ever gets, the default admin included
MaxUsers == 2
\* executable files under PLUGINS_DIR
MaxPlugins == 2
\* requests inside middleware.Auth at once
NumAuthReqs == 2
\* slots of the thumbnailer's worker pool (THUMB_WORKERS)
NumWorkers == 2
\* times the broker delivers one photo.uploaded message
MaxDeliveries == 2
\* the concurrent DELETE /api/users requests of SpecDeletes
NumDeleters == 2

(***************************************************************************)
(* Program constants                                                       *)
(***************************************************************************)
\* TokenExpiration, 24 h, in clock units of 12 h
TokenExpiration == 2
\* default eviction deadline of RevokeToken, 24 h, in clock units of 12 h
DefaultRevocationTTL == 2
\* rate.NewLimiter(rate.Limit(10), 30): burst
RateBurst == 30
\* thumbnailer Config.MaxRetries
MaxRetries == 3
\* handlePhotoUploaded: var backoff = 1 * time.Second, in seconds
InitialBackoff == 1

(***************************************************************************)
(* Auth service: data                                                      *)
(***************************************************************************)
Subjects == {"", "u1"}
ClaimKeys == {"role"}
ClaimValues == {"admin", "user"}

\* a Go map[string]interface{}: nil, or a (possibly empty) map
NilMap == [isNil |-> TRUE, kv |-> <<>>]
GoMap(f) == [isNil |-> FALSE, kv |-> f]
CustomMaps ==
    {NilMap} \cup {GoMap(f) : f \in UNION {[K -> ClaimValues] : K \in SUBSET ClaimKeys}}

\* sentinel of an absent exp claim (ExpiresAt == nil)
NoExp == -1

\* Claims.CustomClaims carries `json:"custom,omitempty"`: a nil or empty map
\* is left out of the encoded claims
EncodeCustom(c) ==
    IF c.isNil \/ DOMAIN c.kv = {}
    THEN [present |-> FALSE, kv |-> <<>>]
    ELSE [present |-> TRUE, kv |-> c.kv]

\* decoding into &Claims{}: an absent member leaves the map nil
\* variant: the custom member is never decoded
DecodeCustom_Dropped(e) == NilMap
DecodeCustom(e) == IF e.present THEN GoMap(e.kv) ELSE NilMap

\* a token string, by the content it encodes: header alg, the key that signed
\* it, and the claims
MkToken(alg, key, sub, iat, exp, custom) ==
    [alg |-> alg, key |-> key, sub |-> sub, iat |-> iat, exp |-> exp,
     custom |-> EncodeCustom(custom)]

\* the key a token of the configured algorithm must be signed with
ServerKey(algo) == IF algo = "HS256" THEN "secret" ELSE "rsa"

\* variant: the keyfunc without its signing-method check
AlgFamily_Unchecked(alg) == "any"
AlgFamily(alg) ==
    CASE alg = "HS256" -> "HMAC"
      [] alg = "RS256" -> "RSA"
      [] OTHER -> "none"

\* tokens no GenerateToken call of this run produced: a well-formed token of
\* the other algorithm family, one signed with a key that is not the server's,
\* a correctly signed one without exp, a string that is not a JWT, a token of
\* the other family keyed with the server's key material and carrying good
\* claims, an unsigned token (alg none)
Malformed == [alg |-> "malformed", key |-> "", sub |-> "", iat |-> 0, exp |-> NoExp,
              custom |-> [present |-> FALSE, kv |-> <<>>]]
CraftedTokens(algo) ==
    { MkToken(IF algo = "HS256" THEN "RS256" ELSE "HS256", "other", "u1", 0, 1, NilMap),
      MkToken(algo, "other", "u1", 0, 1, NilMap),
      MkToken(algo, ServerKey(algo), "u1", 0, NoExp, NilMap),
      Malformed,
      MkToken(IF algo = "HS256" THEN "RS256" ELSE "HS256", ServerKey(algo), "u1", 0, NoExp, NilMap),
      MkToken("none", "", "u1", 0, NoExp, NilMap) }

\* the outcome of ValidateToken
Accept(sub, custom) == [err |-> "ok", sub |-> sub, custom |-> custom]
Reject(e) == [err |-> e, sub |-> "", custom |-> NilMap]

(***************************************************************************)
(* Variables                                                               *)
(***************************************************************************)
VARIABLES
    \* ---- auth service ----
    jwtAlgo,         \* Config.JWTAlgo, fixed at boot
    now,             \* the clock
    rateTokens,      \* tokens left in the process-wide rate limiter
    tokenBlacklist,  \* revoked token string -> eviction deadline
    issued,          \* GenerateToken calls so far: the inputs and the token returned
    revoked,         \* token strings RevokeToken was called with so far
    authRes          \* the auth call the last step made (call "none" when it made
                     \* none): its token and, for a validation, what it returned

authVars == <<jwtAlgo, now, rateTokens, tokenBlacklist, issued, revoked, authRes>>

(***************************************************************************)
(* Auth service: operations                                                *)
(***************************************************************************)
\* Service.GenerateToken: iat = now, exp = now + TokenExpiration, signed with
\* the key of the configured algorithm
GenerateToken(algo, subject, customClaims, t) ==
    MkToken(algo, ServerKey(algo), subject, t, t + TokenExpiration, customClaims)

\* jwt.ParseWithClaims with the keyfunc of ValidateToken, then the checks that
\* follow it: segments, signing method family, signature, exp, then sub
ParseAndCheck(algo, tok, t) ==
    IF tok.alg = "malformed" THEN Reject("parse_error")
    ELSE IF AlgFamily(tok.alg) # AlgFamily(algo) THEN Reject("parse_error")
    ELSE IF tok.key # ServerKey(algo) THEN Reject("parse_error")
    ELSE IF tok.exp # NoExp /\ ~(t < tok.exp) THEN Reject("token_expired")
    ELSE IF tok.exp # NoExp /\ tok.exp < t THEN Reject("token_expired")
    ELSE IF tok.sub = "" THEN Reject("invalid_claims")
    ELSE Accept(tok.sub, DecodeCustom(tok.custom))

\* rateLimiter.Allow(): a call is admitted when the bucket holds a token, and
\* takes it
\* variant: the limiter admits every call
Allow_Always(tokens) == TRUE
Allow(tokens) == tokens > 0
TakeToken(tokens) == IF Allow(tokens) THEN tokens - 1 ELSE tokens

\* variant: the token is parsed before the blacklist is consulted
ValidateToken_ParseFirst(algo, admitted, blacklist, tok, t) ==
    IF ~admitted THEN Reject("rate_limit_exceeded")
    ELSE IF ParseAndCheck(algo, tok, t).err # "ok" THEN ParseAndCheck(algo, tok, t)
    ELSE IF tok \in DOMAIN blacklist THEN Reject("invalid_token")
    ELSE ParseAndCheck(algo, tok, t)
\* Service.ValidateToken, given whether the limiter admitted the call
ValidateToken(algo, admitted, blacklist, tok, t) ==
    IF ~admitted THEN Reject("rate_limit_exceeded")
    ELSE IF tok \in DOMAIN blacklist THEN Reject("invalid_token")
    ELSE ParseAndCheck(algo, tok, t)

\* the eviction deadline RevokeToken stores: the token's own exp when the
\* claims could be decoded and carry one, else now + 24 h
RevocationDeadline(tok, t) ==
    IF tok.alg # "malformed" /\ tok.exp # NoExp THEN tok.exp
    ELSE t + DefaultRevocationTTL

\* cleanupBlacklist, one tick: drops the entries with now.After(expiry)
\* variant: an entry is dropped as soon as the clock reaches its deadline
SweptBlacklist_AtDeadline(blacklist, t) ==
    [k \in {x \in DOMAIN blacklist : t < blacklist[x]} |-> blacklist[k]]
SweptBlacklist(blacklist, t) ==
    [k \in {x \in DOMAIN blacklist : ~(t > blacklist[x])} |-> blacklist[k]]

(***************************************************************************)
(* Photos: data                                                            *)
(***************************************************************************)
SeedIds == 1..NumSeed
PhotoIds == 1..(NumSeed + MaxPhotos)
Procs == 1..NumProcs

\* uploaded byte sequences; image.Decode accepts the first
Datas == {"imgA", "junk"}
Decodable(d) == d # "junk"
\* the Content-Type of the multipart part header ("" when there is none)
HeaderMimes == {"", "image/png"}
\* the thumbnail query parameter ("" when there is none)
ThumbParams == {"", "512"}
\* strings.HasPrefix(event.Mime, "image/")
HasImagePrefix(mime) == mime \in {"image/png", "image/jpeg"}

\* fmt.Sprintf("photos/%s", id) and fmt.Sprintf("thumb/%d/%s.jpg", 512, id)
PrimaryKey(id) == <<"photos", id>>
ThumbKey(id) == <<"thumb/512", id>>
\* the JPEG the thumbnailer encodes from a decoded image
ThumbOf(d) == <<"jpeg512", d>>

VARIABLES
    \* ---- stores and bus ----
    photos,      \* the photos table: id -> row, for the ids that have a row
    objects,     \* the bucket: key -> object, for the keys that exist
    nextId,      \* the next fresh UUID
    published,   \* every message the broker accepted
    pending,     \* photo.uploaded messages awaiting (re)delivery to the thumbnailer
    publishers,  \* fire-and-forget publish goroutines not yet run
    \* ---- processes ----
    http,        \* per request slot: position in its handler and its locals
    lastResp,    \* the response the last step sent (NoResp when it sent none)
    worker,      \* the thumbnailer's delivery goroutine
    \* ---- history ----
    faults,      \* injected failures so far
    storeErr,    \* some object-store or metadata-store call has returned an error
    uploads      \* id -> what its 201 upload sent, and whether the id was ever
                 \*       the target of a trash, purge or delete

photoVars == <<photos, objects, nextId, published, pending, publishers, http, lastResp, worker,
               faults, storeErr, uploads>>
(***************************************************************************)
(* Users: data                                                             *)
(***************************************************************************)
\* the UUIDs uuid.New() hands out for users, in order
UserIdSeq == <<"u1", "u2", "u3", "u4">>
UserIds == {UserIdSeq[n] : n \in 1..MaxUsers}
Usernames == {"admin", "bob"}
\* an empty password, the default admin's, another one
Passwords == {"", "admin123", "pw"}
Roles == {"admin", "user"}

VARIABLES
    users,       \* the users table: id -> row, for the ids that have a row
    nextUserId   \* index into UserIdSeq of the next fresh user UUID

userVars == <<users, nextUserId>>

(***************************************************************************)
(* Plugin supervisor and worker pool: variables                            *)
(***************************************************************************)
VARIABLES
    \* ---- plugin loader and plugin-driven auth ----
    children,         \* plugin path -> its child process and what it did at load
    Registry,         \* loader.Registry: the plugins registered, in order
    pluginProcesses,  \* loader.pluginProcesses: the children spawned, in order
    host,             \* the host process: where it is in Init, serving, or gone
    mutex,            \* loader.mutex: the request holding it, 0 when free
    fan,              \* request slot -> its pass through middleware.Auth
    \* ---- thumbnailer worker pool ----
    workerPool,       \* free slots in the workerPool channel
    callback,         \* the delivery handlePhotoUploaded is called with
    jobs,             \* the worker goroutines running: delivery -> its state
    broker,           \* photo.uploaded messages the stream holds unacked
    settled           \* deliveries the worker settled: how, after what

pluginVars == <<children, Registry, pluginProcesses, host, mutex, fan>>
poolVars == <<workerPool, callback, jobs, broker, settled>>

vars == <<authVars, photoVars, userVars, pluginVars, poolVars>>

\* SQL NULL in the deleted_at column
Null == -1

\* a row as SavePhoto leaves it: status takes the column default 'active',
\* deleted_at and meta are NULL (a NULL meta has no thumbnails)
NewRow(s3Key, mime) ==
    [s3_key |-> s3Key, mime |-> mime, status |-> "active", deleted_at |-> Null,
     thumbnails |-> <<>>]

Remove(f, k) == [x \in DOMAIN f \ {k} |-> f[x]]
Put(f, k, v) == [x \in DOMAIN f \cup {k} |-> IF x = k THEN v ELSE f[x]]

\* processMessage's UPDATE: jsonb_set of meta.thumbnails to the old
\* thumbnails || {"512": key} on the row with the id, if there is one
\* variant: meta.thumbnails is replaced by {"512": key}
MergeThumbnail_Replace(tbl, id) ==
    IF id \in DOMAIN tbl
    THEN [tbl EXCEPT ![id].thumbnails = Put(<<>>, "512", ThumbKey(id))]
    ELSE tbl
MergeThumbnail(tbl, id) ==
    IF id \in DOMAIN tbl
    THEN [tbl EXCEPT ![id].thumbnails = Put(@, "512", ThumbKey(id))]
    ELSE tbl

\* TrashPhoto's UPDATE: the row it matches (WHERE id = $1 AND status = 'active')
\* and what it sets (status = 'trashed', deleted_at = NOW())
TrashAffects(tbl, id) == id \in DOMAIN tbl /\ tbl[id].status = "active"
TrashedRow(row, t) == [row EXCEPT !.status = "trashed", !.deleted_at = t]

\* RestorePhoto's UPDATE: WHERE id = $1 AND status = 'trashed';
\* SET status = 'active', deleted_at = NULL
RestoreAffects(tbl, id) == id \in DOMAIN tbl /\ tbl[id].status = "trashed"
\* variant: the UPDATE without deleted_at = NULL
RestoredRow_KeepsDeletedAt(row) == [row EXCEPT !.status = "active"]
RestoredRow(row) == [row EXCEPT !.status = "active", !.deleted_at = Null]

\* PermanentlyDeletePhoto's DELETE: WHERE id = $1 AND status = 'trashed'
\* variant: the DELETE without its status condition
PurgeAffects_AnyStatus(tbl, id) == id \in DOMAIN tbl
PurgeAffects(tbl, id) == id \in DOMAIN tbl /\ tbl[id].status = "trashed"

\* EmptyTrash's DELETE: WHERE status = 'trashed'
EmptyTrashAffects(tbl) == {i \in DOMAIN tbl : tbl[i].status = "trashed"}

\* the MIME uploadHandler derives from the part header
\* variant: the part header is ignored
UploadMime_AlwaysDefault(hmime) == "application/octet-stream"
UploadMime(hmime) == IF hmime = "" THEN "application/octet-stream" ELSE hmime

\* the publish goroutine uploadHandler starts: none when SavePhoto failed
\* (the handler has returned before the go statement)
\* variant: the go statement placed before the error return
UploadSpawns_Always(saved, msg) == {msg}
UploadSpawns(saved, msg) == IF saved THEN {msg} ELSE {}

\* ListPhotos: WHERE status = 'active' OR status IS NULL
\* variant: the SELECT without its WHERE clause
ListPhotos_AllRows(tbl) == DOMAIN tbl
ListPhotos(tbl) == {i \in DOMAIN tbl : tbl[i].status = "active"}
\* ListTrashedPhotos: WHERE status = 'trashed'
ListTrashedPhotos(tbl) == {i \in DOMAIN tbl : tbl[i].status = "trashed"}

\* the keys a purge deletes for one listed photo, in the order of the calls:
\* the primary key, then every string value of meta.thumbnails
ThumbKeysOf(row) ==
    IF "512" \in DOMAIN row.thumbnails THEN <<row.thumbnails["512"]>> ELSE <<>>
BlobKeysOf(row) == <<row.s3_key>> \o ThumbKeysOf(row)

\* the rows of a listing as the handler's loop visits them
RECURSIVE KeysOfAll(_, _)
KeysOfAll(tbl, S) ==
    IF S = {} THEN <<>>
    ELSE LET i == CHOOSE x \in S : \A y \in S : x <= y
         IN BlobKeysOf(tbl[i]) \o KeysOfAll(tbl, S \ {i})

\* a response; the fields a handler does not set keep their zero values
NoResp == [op |-> "none", id |-> 0, status |-> 0, count |-> 0, data |-> "",
           ctype |-> "", ids |-> {}]
Resp(op, id, status) == [NoResp EXCEPT !.op = op, !.id = id, !.status = status]

\* a request slot between requests
IdleSlot == [pc |-> "idle", id |-> 0, key |-> <<"", 0>>, mime |-> "", keys |-> <<>>, n |-> 0]
\* a request slot inside a handler
At(pc, id, key, mime, keys, n) ==
    [pc |-> pc, id |-> id, key |-> key, mime |-> mime, keys |-> keys, n |-> n]

NoMsg == [subject |-> "", id |-> 0, mime |-> "", s3_key |-> <<"", 0>>]
Msg(subject, id, mime, key) == [subject |-> subject, id |-> id, mime |-> mime, s3_key |-> key]
WorkerIdle == [pc |-> "idle", msg |-> NoMsg, retries |-> 0, jpeg |-> <<"", "">>]

\* a single-statement handler answers; a handler answers and its slot is free
\* again; a handler moves on to its next call
Answer(r) == lastResp' = r /\ UNCHANGED http
Respond(p, r) == http' = [http EXCEPT ![p] = IdleSlot] /\ lastResp' = r
Goto(p, slot) == http' = [http EXCEPT ![p] = slot] /\ lastResp' = NoResp

\* the outcomes a store or bus call may have: TRUE is success
Outcomes == IF faults < MaxFaults THEN {TRUE, FALSE} ELSE {TRUE}
Fault(ok) == faults' = IF ok THEN faults ELSE faults + 1

\* photoHandler's authentication: a non-empty ?token= must validate, and
\* without one the X-User-Id header must be set
\* variant: an authenticated header is enough, whatever ?token= holds
PhotoAuthorized_HeaderWins(hasTokenParam, tokenErr, xUserId) ==
    xUserId # "" \/ (hasTokenParam /\ tokenErr = "ok")
PhotoAuthorized(hasTokenParam, tokenErr, xUserId) ==
    IF hasTokenParam THEN tokenErr = "ok" ELSE xUserId # ""

\* the token a request may carry in ?token=
QueryTokens(algo) ==
    { GenerateToken(algo, "u1", NilMap, 0), MkToken(algo, "other", "u1", 0, 1, NilMap) }

Touch(id) == IF id \in DOMAIN uploads
             THEN [uploads EXCEPT ![id].touched = TRUE] ELSE uploads

(***************************************************************************)
(* Init                                                                    *)
(***************************************************************************)
NoCall == [call |-> "none", tok |-> Malformed, res |-> Reject("")]

InitAuthWith(algos, buckets) ==
    /\ jwtAlgo \in algos
    /\ now = 0
    /\ rateTokens \in buckets
    /\ tokenBlacklist = <<>>
    /\ issued = {}
    /\ revoked = {}
    /\ authRes = NoCall

\* the stores persist across restarts: at boot they hold NumSeed photos that an
\* earlier run uploaded and thumbnailed
SeedObjects(ids) ==
    [k \in {PrimaryKey(i) : i \in ids} \cup {ThumbKey(i) : i \in ids} |->
        IF k[1] = "photos" THEN [data |-> "imgA", ctype |-> "image/png"]
        ELSE [data |-> ThumbOf("imgA"), ctype |-> "image/jpeg"]]

InitPhotosWith(ids) ==
    /\ photos = [i \in ids |->
                    [NewRow(PrimaryKey(i), "image/png") EXCEPT
                        !.thumbnails = Put(<<>>, "512", ThumbKey(i))]]
    /\ objects = SeedObjects(ids)
    /\ nextId = Cardinality(ids) + 1
    /\ published = {}
    /\ pending = {}
    /\ publishers = {}
    /\ http = [p \in Procs |-> IdleSlot]
    /\ lastResp = NoResp
    /\ worker = WorkerIdle
    /\ faults = 0
    /\ storeErr = FALSE
    /\ uploads = [i \in ids |-> [data |-> "imgA", hmime |-> "image/png", touched |-> FALSE]]

InitPhotos == InitPhotosWith(SeedIds)

\* the plugin loader before Init: no child, an empty registry
NoChild == [proc |-> "none", port |-> "none", health |-> "none"]
IdleFan == [pc |-> "idle", i |-> 0, authenticated |-> FALSE, userId |-> "", calls |-> <<>>]
InitPluginsAt(pc) ==
    /\ children = [k \in 1..MaxPlugins |-> NoChild]
    /\ Registry = <<>>
    /\ pluginProcesses = <<>>
    /\ host = [pc |-> pc, idx |-> 1]
    /\ mutex = 0
    /\ fan = [r \in 1..NumAuthReqs |-> IdleFan]
\* a host that does not load plugins
InitPlugins == InitPluginsAt("serving")

\* the thumbnailer at Start: every slot in the pool, the stream holding msgs
NoDelivery == [msg |-> NoMsg, n |-> 0]
InitPoolWith(msgs) ==
    /\ workerPool = NumWorkers
    /\ callback = NoDelivery
    /\ jobs = <<>>
    /\ broker = {[msg |-> m, n |-> 1] : m \in msgs}
    /\ settled = {}
InitPool == InitPoolWith({})

\* user.Manager.InitSchema on an empty table: the default admin, active by
\* the column default
DefaultAdmin ==
    [username |-> "admin", password |-> "admin123", role |-> "admin", active |-> TRUE,
     last_login |-> Null]
InitUsers ==
    /\ users = [i \in {UserIdSeq[1]} |-> DefaultAdmin]
    /\ nextUserId = 2

\* Spec: JWT_ALGO at its default, the limiter as constructed
Init == InitAuthWith({"HS256"}, {RateBurst}) /\ InitPhotos /\ InitUsers /\ InitPlugins /\ InitPool

(***************************************************************************)
(* uploadHandler                                                           *)
(***************************************************************************)
\* ParseMultipartForm or FormFile fails: 400 before anything is written
UploadBadForm ==
    /\ Answer(Resp("upload", 0, 400))
    /\ UNCHANGED <<pluginVars, poolVars, userVars, authVars, photos, objects, nextId, published, pending, publishers,
                   worker, faults, storeErr, uploads>>

\* uuid.New, MIME from the part header (default application/octet-stream),
\* Storage.UploadObject at photos/<id>
UploadPutObject(p) ==
    /\ http[p].pc = "idle"
    /\ nextId <= NumSeed + MaxPhotos
    /\ \E data \in Datas, hmime \in HeaderMimes, ok \in Outcomes :
        LET id == nextId
            mime == UploadMime(hmime)
            s3Key == PrimaryKey(id)
        IN /\ nextId' = nextId + 1
           /\ Fault(ok)
           /\ IF ok
              THEN /\ objects' = Put(objects, s3Key, [data |-> data, ctype |-> mime])
                   /\ Goto(p, At("upload_save", id, s3Key, mime, <<>>, 0))
                   /\ uploads' = Put(uploads, id, [data |-> data, hmime |-> hmime,
                                                   touched |-> FALSE])
                   /\ UNCHANGED storeErr
              ELSE /\ Respond(p, Resp("upload", 0, 500))
                   /\ storeErr' = TRUE
                   /\ UNCHANGED <<objects, uploads>>
    /\ UNCHANGED <<pluginVars, poolVars, userVars, authVars, photos, published, pending, publishers, worker>>

\* DB.SavePhoto, then the publish goroutine is started and 201 {id} returned
UploadSavePhoto(p) ==
    /\ http[p].pc = "upload_save"
    /\ \E ok \in Outcomes :
        LET r == http[p] IN
        /\ Fault(ok)
        /\ publishers' = publishers \cup
                UploadSpawns(ok, Msg("photo.uploaded", r.id, r.mime, r.key))
        /\ IF ok
           THEN /\ photos' = Put(photos, r.id, NewRow(r.key, r.mime))
                /\ Respond(p, Resp("upload", r.id, 201))
                /\ UNCHANGED storeErr
           ELSE /\ Respond(p, Resp("upload", 0, 500))
                /\ storeErr' = TRUE
                /\ UNCHANGED photos
    /\ UNCHANGED <<pluginVars, poolVars, userVars, authVars, objects, nextId, published, pending, worker, uploads>>

\* the publishing goroutines left after the goroutine of g has called
\* events.Publish: it returns whether the call failed or not
\* variant: the goroutine calls events.Publish again after a failure
AfterPublish_Retry(pubs, g, ok) == IF ok THEN pubs \ {g} ELSE pubs
AfterPublish(pubs, g, ok) == pubs \ {g}

\* the goroutine of uploadHandler / deletePhotoHandler: events.Publish, its
\* error only logged
Publish(g) ==
    /\ g \in publishers
    /\ \E ok \in Outcomes :
        /\ Fault(ok)
        /\ publishers' = AfterPublish(publishers, g, ok)
        /\ IF ok
           THEN /\ published' = published \cup {g}
                /\ pending' = IF g.subject = "photo.uploaded" THEN pending \cup {g} ELSE pending
           ELSE UNCHANGED <<published, pending>>
    /\ UNCHANGED <<pluginVars, poolVars, userVars, authVars, photos, objects, nextId, http, worker, storeErr, uploads>>
    /\ lastResp' = NoResp

(***************************************************************************)
(* trashPhotoHandler, restorePhotoHandler                                  *)
(***************************************************************************)
\* DB.TrashPhoto: UPDATE ... WHERE id = $1 AND status = 'active'; no row
\* affected is an error; the handler answers every error with 500
TrashPhoto(id) ==
    /\ \E ok \in Outcomes :
        /\ Fault(ok)
        /\ IF ok /\ TrashAffects(photos, id)
           THEN /\ photos' = [photos EXCEPT ![id] = TrashedRow(@, now)]
                /\ Answer(Resp("trash", id, 200))
                /\ UNCHANGED storeErr
           ELSE /\ Answer(Resp("trash", id, 500))
                /\ storeErr' = TRUE
                /\ UNCHANGED photos
    /\ uploads' = Touch(id)
    /\ UNCHANGED <<pluginVars, poolVars, userVars, authVars, objects, nextId, published, pending, publishers, worker>>

\* DB.RestorePhoto: UPDATE ... WHERE id = $1 AND status = 'trashed'
RestorePhoto(id) ==
    /\ \E ok \in Outcomes :
        /\ Fault(ok)
        /\ IF ok /\ RestoreAffects(photos, id)
           THEN /\ photos' = [photos EXCEPT ![id] = RestoredRow(@)]
                /\ Answer(Resp("restore", id, 200))
                /\ UNCHANGED storeErr
           ELSE /\ Answer(Resp("restore", id, 500))
                /\ storeErr' = TRUE
                /\ UNCHANGED photos
    /\ UNCHANGED <<pluginVars, poolVars, userVars, authVars, objects, nextId, published, pending, publishers, worker, uploads>>

(***************************************************************************)
(* listPhotosHandler, listTrashHandler                                     *)
(***************************************************************************)
ListPhotosHandler ==
    /\ \E ok \in Outcomes :
        /\ Fault(ok)
        /\ IF ok
           THEN /\ Answer([Resp("list", 0, 200) EXCEPT !.ids = ListPhotos(photos)])
                /\ UNCHANGED storeErr
           ELSE /\ Answer(Resp("list", 0, 500))
                /\ storeErr' = TRUE
    /\ UNCHANGED <<pluginVars, poolVars, userVars, authVars, photos, objects, nextId, published, pending, publishers,
                   worker, uploads>>

ListTrashHandler ==
    /\ \E ok \in Outcomes :
        /\ Fault(ok)
        /\ IF ok
           THEN /\ Answer([Resp("list_trash", 0, 200) EXCEPT !.ids = ListTrashedPhotos(photos)])
                /\ UNCHANGED storeErr
           ELSE /\ Answer(Resp("list_trash", 0, 500))
                /\ storeErr' = TRUE
    /\ UNCHANGED <<pluginVars, poolVars, userVars, authVars, photos, objects, nextId, published, pending, publishers,
                   worker, uploads>>

(***************************************************************************)
(* photoHandler                                                            *)
(***************************************************************************)
\* the ?token= check, DB.ListPhotos, the search for the id and the choice of
\* the key: the thumbnail key and image/jpeg when ?thumbnail=<size> names an
\* entry of meta.thumbnails, else the primary key and the row's MIME
PhotoList(p, id) ==
    /\ http[p].pc = "idle"
    /\ \E thumbnailSize \in ThumbParams, useTok \in BOOLEAN, tok \in QueryTokens(jwtAlgo),
          ok \in Outcomes :
        LET admitted == Allow(rateTokens)
            v == ValidateToken(jwtAlgo, admitted, tokenBlacklist, tok, now)
        IN
        /\ useTok => rateTokens > RateBurst - MaxQueryValidations
        /\ rateTokens' = IF useTok THEN TakeToken(rateTokens) ELSE rateTokens
        /\ IF ~PhotoAuthorized(useTok, v.err, "u1")
           THEN /\ Respond(p, Resp("get", id, 401))
                /\ UNCHANGED <<faults, storeErr>>
           ELSE /\ Fault(ok)
                /\ IF ~ok
                   THEN /\ Respond(p, Resp("get", id, 500))
                        /\ storeErr' = TRUE
                   ELSE /\ UNCHANGED storeErr
                        /\ IF id \notin ListPhotos(photos)
                           THEN Respond(p, Resp("get", id, 404))
                           ELSE LET row == photos[id] IN
                                IF thumbnailSize # "" /\ thumbnailSize \in DOMAIN row.thumbnails
                                THEN Goto(p, At("get_object", id, row.thumbnails[thumbnailSize], "image/jpeg", <<>>, 0))
                                ELSE Goto(p, At("get_object", id, row.s3_key, row.mime, <<>>, 0))
    /\ UNCHANGED <<pluginVars, poolVars, userVars, jwtAlgo, now, tokenBlacklist, issued, revoked, authRes, photos, objects,
                   nextId, published, pending, publishers, worker, uploads>>

\* Storage.GetObject and the stream: Content-Type, then the object's bytes
PhotoGetObject(p) ==
    /\ http[p].pc = "get_object"
    /\ \E ok \in Outcomes :
        LET r == http[p] IN
        /\ Fault(ok)
        /\ IF ok /\ r.key \in DOMAIN objects
           THEN /\ Respond(p, [Resp("get", r.id, 200) EXCEPT !.data = objects[r.key].data, !.ctype = r.mime])
                /\ UNCHANGED storeErr
           ELSE /\ Respond(p, Resp("get", r.id, 500))
                /\ storeErr' = TRUE
    /\ UNCHANGED <<pluginVars, poolVars, userVars, authVars, photos, objects, nextId, published, pending, publishers,
                   worker, uploads>>

(***************************************************************************)
(* deletePhotoHandler (legacy hard delete)                                 *)
(***************************************************************************)
\* DB.GetPhoto: any error, a missing row included, is answered 404
DeleteGetPhoto(p, id) ==
    /\ http[p].pc = "idle"
    /\ \E ok \in Outcomes :
        /\ Fault(ok)
        /\ IF ok /\ id \in DOMAIN photos
           THEN /\ Goto(p, At("delete_object", id, photos[id].s3_key, "", <<>>, 0))
                /\ UNCHANGED storeErr
           ELSE /\ Respond(p, Resp("delete", id, 404))
                /\ storeErr' = TRUE
    /\ uploads' = Touch(id)
    /\ UNCHANGED <<pluginVars, poolVars, userVars, authVars, photos, objects, nextId, published, pending, publishers, worker>>

\* Storage.DeleteObject: deleting an absent key succeeds
DeleteObject(p) ==
    /\ http[p].pc = "delete_object"
    /\ \E ok \in Outcomes :
        LET r == http[p] IN
        /\ Fault(ok)
        /\ IF ok
           THEN /\ objects' = Remove(objects, r.key)
                /\ Goto(p, [http[p] EXCEPT !.pc = "delete_row"])
                /\ UNCHANGED storeErr
           ELSE /\ Respond(p, Resp("delete", r.id, 500))
                /\ storeErr' = TRUE
                /\ UNCHANGED objects
    /\ UNCHANGED <<pluginVars, poolVars, userVars, authVars, photos, nextId, published, pending, publishers, worker, uploads>>

\* DB.DeletePhoto (no row affected is an error), then the photo.deleted
\* goroutine is started and 204 returned
DeleteRow(p) ==
    /\ http[p].pc = "delete_row"
    /\ \E ok \in Outcomes :
        LET r == http[p] IN
        /\ Fault(ok)
        /\ IF ok /\ r.id \in DOMAIN photos
           THEN /\ photos' = Remove(photos, r.id)
                /\ publishers' = publishers \cup {Msg("photo.deleted", r.id, "", <<"", 0>>)}
                /\ Respond(p, Resp("delete", r.id, 204))
                /\ UNCHANGED storeErr
           ELSE /\ Respond(p, Resp("delete", r.id, 500))
                /\ storeErr' = TRUE
                /\ UNCHANGED <<photos, publishers>>
    /\ UNCHANGED <<pluginVars, poolVars, userVars, authVars, objects, nextId, published, pending, worker, uploads>>

(***************************************************************************)
(* emptyTrashHandler                                                       *)
(***************************************************************************)
\* DB.ListTrashedPhotos; the loop below works on this snapshot
EmptyList(p) ==
    /\ http[p].pc = "idle"
    /\ \E ok \in Outcomes :
        /\ Fault(ok)
        /\ IF ok
           THEN /\ Goto(p, At("empty_objects", 0, <<"", 0>>, "", KeysOfAll(photos, ListTrashedPhotos(photos)), Cardinality(ListTrashedPhotos(photos))))
                /\ UNCHANGED storeErr
           ELSE /\ Respond(p, Resp("empty", 0, 500))
                /\ storeErr' = TRUE
    /\ UNCHANGED <<pluginVars, poolVars, userVars, authVars, photos, objects, nextId, published, pending, publishers,
                   worker, uploads>>

\* one Storage.DeleteObject of the loop (primary or thumbnail key); an error
\* is logged and the loop goes on
EmptyDeleteObject(p) ==
    /\ http[p].pc = "empty_objects"
    /\ http[p].keys # <<>>
    /\ \E ok \in Outcomes :
        /\ Fault(ok)
        /\ objects' = IF ok THEN Remove(objects, Head(http[p].keys)) ELSE objects
        /\ storeErr' = (storeErr \/ ~ok)
    /\ Goto(p, [http[p] EXCEPT !.keys = Tail(@)])
    /\ UNCHANGED <<pluginVars, poolVars, userVars, authVars, photos, nextId, published, pending, publishers, worker, uploads>>

\* DB.EmptyTrash: DELETE FROM photos WHERE status = 'trashed'; the response
\* carries RowsAffected
EmptyRows(p) ==
    /\ http[p].pc = "empty_objects"
    /\ http[p].keys = <<>>
    /\ \E ok \in Outcomes :
        /\ Fault(ok)
        /\ IF ok
           THEN /\ photos' = [i \in DOMAIN photos \ EmptyTrashAffects(photos) |-> photos[i]]
                /\ Respond(p, [Resp("empty", 0, 200) EXCEPT
                                  !.count = Cardinality(EmptyTrashAffects(photos))])
                /\ UNCHANGED storeErr
           ELSE /\ Respond(p, Resp("empty", 0, 500))
                /\ storeErr' = TRUE
                /\ UNCHANGED photos
    /\ uploads' = [i \in DOMAIN uploads |->
                     IF i \in EmptyTrashAffects(photos)
                     THEN [uploads[i] EXCEPT !.touched = TRUE] ELSE uploads[i]]
    /\ UNCHANGED <<pluginVars, poolVars, userVars, authVars, objects, nextId, published, pending, publishers, worker>>

(***************************************************************************)
(* permanentDeletePhotoHandler (purge single)                              *)
(***************************************************************************)
\* DB.ListTrashedPhotos and the search for the id: 404 unless it is listed
PurgeList(p, id) ==
    /\ http[p].pc = "idle"
    /\ \E ok \in Outcomes :
        /\ Fault(ok)
        /\ IF ~ok
           THEN /\ Respond(p, Resp("purge", id, 500))
                /\ storeErr' = TRUE
           ELSE /\ UNCHANGED storeErr
                /\ IF id \notin ListTrashedPhotos(photos)
                   THEN Respond(p, Resp("purge", id, 404))
                   ELSE Goto(p, At("purge_primary", id, photos[id].s3_key, "", ThumbKeysOf(photos[id]), 0))
    /\ uploads' = Touch(id)
    /\ UNCHANGED <<pluginVars, poolVars, userVars, authVars, photos, objects, nextId, published, pending, publishers, worker>>

\* Storage.DeleteObject of the primary key: an error ends the request with 500
PurgePrimary(p) ==
    /\ http[p].pc = "purge_primary"
    /\ \E ok \in Outcomes :
        LET r == http[p] IN
        /\ Fault(ok)
        /\ IF ok
           THEN /\ objects' = Remove(objects, r.key)
                /\ Goto(p, [http[p] EXCEPT !.pc = "purge_thumbs"])
                /\ UNCHANGED storeErr
           ELSE /\ Respond(p, Resp("purge", r.id, 500))
                /\ storeErr' = TRUE
                /\ UNCHANGED objects
    /\ UNCHANGED <<pluginVars, poolVars, userVars, authVars, photos, nextId, published, pending, publishers, worker, uploads>>

\* one Storage.DeleteObject of a thumbnail key; an error is logged only
PurgeThumb(p) ==
    /\ http[p].pc = "purge_thumbs"
    /\ http[p].keys # <<>>
    /\ \E ok \in Outcomes :
        /\ Fault(ok)
        /\ objects' = IF ok THEN Remove(objects, Head(http[p].keys)) ELSE objects
        /\ storeErr' = (storeErr \/ ~ok)
    /\ Goto(p, [http[p] EXCEPT !.keys = Tail(@)])
    /\ UNCHANGED <<pluginVars, poolVars, userVars, authVars, photos, nextId, published, pending, publishers, worker, uploads>>

\* DB.PermanentlyDeletePhoto: DELETE ... WHERE id = $1 AND status = 'trashed';
\* no row affected is an error; 204 on success
PurgeRow(p) ==
    /\ http[p].pc = "purge_thumbs"
    /\ http[p].keys = <<>>
    /\ \E ok \in Outcomes :
        LET r == http[p] IN
        /\ Fault(ok)
        /\ IF ok /\ PurgeAffects(photos, r.id)
           THEN /\ photos' = Remove(photos, r.id)
                /\ Respond(p, Resp("purge", r.id, 204))
                /\ UNCHANGED storeErr
           ELSE /\ Respond(p, Resp("purge", r.id, 500))
                /\ storeErr' = TRUE
                /\ UNCHANGED photos
    /\ UNCHANGED <<pluginVars, poolVars, userVars, authVars, objects, nextId, published, pending, publishers, worker, uploads>>

(***************************************************************************)
(* Thumbnailer: handlePhotoUploaded / processMessage                       *)
(***************************************************************************)
\* an attempt of processMessage returned an error: Nak after the last retry
\* (the broker redelivers), else sleep the backoff and try again
AttemptFailed(storeCall) ==
    /\ IF worker.retries = MaxRetries
       THEN /\ worker' = WorkerIdle
            /\ pending' = pending \cup {worker.msg}
       ELSE /\ worker' = [worker EXCEPT !.pc = "process", !.retries = @ + 1]
            /\ UNCHANGED pending
    /\ storeErr' = (storeErr \/ storeCall)

\* the broker delivers a message and the callback takes the worker slot
WorkerDeliver(m) ==
    /\ worker.pc = "idle"
    /\ m \in pending
    /\ pending' = pending \ {m}
    /\ worker' = [WorkerIdle EXCEPT !.pc = "process", !.msg = m]
    /\ UNCHANGED <<pluginVars, poolVars, userVars, authVars, photos, objects, nextId, published, publishers, http,
                   faults, storeErr, uploads>>
    /\ lastResp' = NoResp

\* processMessage up to the JPEG: a non-image MIME is acked at once; else
\* GetObject of the primary key, image.Decode, resize, encode
WorkerFetch ==
    /\ worker.pc = "process"
    /\ \E ok \in Outcomes :
        LET m == worker.msg IN
        /\ Fault(ok)
        /\ IF ~HasImagePrefix(m.mime)
           THEN /\ ok
                /\ worker' = WorkerIdle
                /\ UNCHANGED <<pending, storeErr>>
           ELSE IF ok /\ m.s3_key \in DOMAIN objects /\ Decodable(objects[m.s3_key].data)
                THEN /\ worker' = [worker EXCEPT !.pc = "put",
                                                 !.jpeg = ThumbOf(objects[m.s3_key].data)]
                     /\ UNCHANGED <<pending, storeErr>>
                ELSE AttemptFailed(~ok \/ m.s3_key \notin DOMAIN objects)
    /\ UNCHANGED <<pluginVars, poolVars, userVars, authVars, photos, objects, nextId, published, publishers, http, uploads>>
    /\ lastResp' = NoResp

\* PutObject of the thumbnail at thumb/512/<id>.jpg as image/jpeg
WorkerPut ==
    /\ worker.pc = "put"
    /\ \E ok \in Outcomes :
        /\ Fault(ok)
        /\ IF ok
           THEN /\ objects' = Put(objects, ThumbKey(worker.msg.id),
                                  [data |-> worker.jpeg, ctype |-> "image/jpeg"])
                /\ worker' = [worker EXCEPT !.pc = "merge"]
                /\ UNCHANGED <<pending, storeErr>>
           ELSE /\ AttemptFailed(TRUE)
                /\ UNCHANGED objects
    /\ UNCHANGED <<pluginVars, poolVars, userVars, authVars, photos, nextId, published, publishers, http, uploads>>
    /\ lastResp' = NoResp

\* UPDATE photos SET meta = jsonb_set(..., '{thumbnails}', ... || {"512": key})
\* WHERE id = $3 (no row affected is not an error), then Ack
WorkerMerge ==
    /\ worker.pc = "merge"
    /\ \E ok \in Outcomes :
        LET id == worker.msg.id IN
        /\ Fault(ok)
        /\ IF ok
           THEN /\ photos' = MergeThumbnail(photos, id)
                /\ worker' = WorkerIdle
                /\ UNCHANGED <<pending, storeErr>>
           ELSE /\ AttemptFailed(TRUE)
                /\ UNCHANGED photos
    /\ UNCHANGED <<pluginVars, poolVars, userVars, authVars, objects, nextId, published, publishers, http, uploads>>
    /\ lastResp' = NoResp

(***************************************************************************)
(* Spec: photo lifecycle                                                   *)
(***************************************************************************)
Next ==
    \/ UploadBadForm
    \/ \E p \in Procs : UploadPutObject(p)
    \/ \E p \in Procs : UploadSavePhoto(p)
    \/ \E g \in publishers : Publish(g)
    \/ \E id \in PhotoIds : TrashPhoto(id)
    \/ \E id \in PhotoIds : RestorePhoto(id)
    \/ ListPhotosHandler
    \/ ListTrashHandler
    \/ \E p \in Procs, id \in PhotoIds : PhotoList(p, id)
    \/ \E p \in Procs : PhotoGetObject(p)
    \/ \E p \in Procs, id \in PhotoIds : DeleteGetPhoto(p, id)
    \/ \E p \in Procs : DeleteObject(p)
    \/ \E p \in Procs : DeleteRow(p)
    \/ \E p \in Procs : EmptyList(p)
    \/ \E p \in Procs : EmptyDeleteObject(p)
    \/ \E p \in Procs : EmptyRows(p)
    \/ \E p \in Procs, id \in PhotoIds : PurgeList(p, id)
    \/ \E p \in Procs : PurgePrimary(p)
    \/ \E p \in Procs : PurgeThumb(p)
    \/ \E p \in Procs : PurgeRow(p)
    \/ \E m \in pending : WorkerDeliver(m)
    \/ WorkerFetch
    \/ WorkerPut
    \/ WorkerMerge

Spec == Init /\ [][Next]_vars

\* the publishing goroutines run, the broker delivers what it holds and the
\* worker goes on with the delivery it has
Fairness ==
    /\ WF_vars(\E g \in publishers : Publish(g))
    /\ WF_vars(\E m \in pending : WorkerDeliver(m))
    /\ WF_vars(WorkerFetch)
    /\ WF_vars(WorkerPut)
    /\ WF_vars(WorkerMerge)

SpecFair == Init /\ [][Next]_vars /\ Fairness

(***************************************************************************)
(* SpecAuth: the auth service over a clock                                 *)
(***************************************************************************)
IssuedTokens == {m.tok : m \in issued}

\* either algorithm may be configured; the limiter starts with a full bucket
InitAuth ==
    /\ InitAuthWith({"HS256", "RS256"}, {RateBurst})
    /\ InitPhotos /\ InitUsers /\ InitPlugins /\ InitPool

\* generateTokenHandler / loginHandler -> Service.GenerateToken
AuthGenerate(subject, customClaims) ==
    /\ Cardinality(issued) < MaxTokens
    /\ LET tok == GenerateToken(jwtAlgo, subject, customClaims, now) IN
        /\ issued' = issued \cup {[tok |-> tok, sub |-> subject, custom |-> customClaims]}
        /\ authRes' = [call |-> "generate", tok |-> tok, res |-> Reject("")]
    /\ UNCHANGED <<pluginVars, poolVars, jwtAlgo, now, rateTokens, tokenBlacklist, revoked, photoVars, userVars>>

\* Service.ValidateToken: rateLimiter.Allow() takes a token when one is left
AuthValidate(tok) ==
    /\ rateTokens = 0 \/ rateTokens > RateBurst - MaxValidations
    /\ LET admitted == Allow(rateTokens) IN
        /\ rateTokens' = TakeToken(rateTokens)
        /\ authRes' = [call |-> "validate", tok |-> tok,
                       res |-> ValidateToken(jwtAlgo, admitted, tokenBlacklist, tok, now)]
    /\ UNCHANGED <<pluginVars, poolVars, jwtAlgo, now, tokenBlacklist, issued, revoked, photoVars, userVars>>

\* revokeTokenHandler -> Service.RevokeToken
AuthRevoke(tok) ==
    /\ Cardinality(revoked \cup {tok}) <= MaxRevoked
    /\ tokenBlacklist' = Put(tokenBlacklist, tok, RevocationDeadline(tok, now))
    /\ revoked' = revoked \cup {tok}
    /\ authRes' = [call |-> "revoke", tok |-> tok, res |-> Reject("")]
    /\ UNCHANGED <<pluginVars, poolVars, jwtAlgo, now, rateTokens, issued, photoVars, userVars>>

\* cleanupBlacklist: one tick of the hourly ticker
Sweep ==
    /\ tokenBlacklist' = SweptBlacklist(tokenBlacklist, now)
    /\ authRes' = [NoCall EXCEPT !.call = "sweep"]
    /\ UNCHANGED <<pluginVars, poolVars, jwtAlgo, now, rateTokens, issued, revoked, photoVars, userVars>>

\* the limiter refills one token per 100 ms, up to the burst
Refill ==
    /\ rateTokens < RateBurst
    /\ rateTokens = 0 \/ rateTokens >= RateBurst - MaxValidations
    /\ rateTokens' = rateTokens + 1
    /\ authRes' = NoCall
    /\ UNCHANGED <<pluginVars, poolVars, jwtAlgo, now, tokenBlacklist, issued, revoked, photoVars, userVars>>

\* 12 hours pass; the bucket is full again
Tick ==
    /\ now < MaxTime
    /\ now' = now + 1
    /\ rateTokens' = RateBurst
    /\ authRes' = NoCall
    /\ UNCHANGED <<pluginVars, poolVars, jwtAlgo, tokenBlacklist, issued, revoked, photoVars, userVars>>

\* the token strings a caller may present
Presentable == IssuedTokens \cup CraftedTokens(jwtAlgo)

NextAuth ==
    \/ \E subject \in Subjects, customClaims \in CustomMaps : AuthGenerate(subject, customClaims)
    \/ \E tok \in Presentable : AuthValidate(tok)
    \/ \E tok \in Presentable : AuthRevoke(tok)
    \/ Sweep
    \/ Refill
    \/ Tick

SpecAuth == InitAuth /\ [][NextAuth]_vars

(***************************************************************************)
(* SpecGate: requests through the authentication and role middlewares      *)
(***************************************************************************)
\* a JSON value of a custom claim that is not a string
JsonNumber == "<number>"
IsJsonString(v) == v # JsonNumber

\* the custom claims of the tokens /api/auth/token is asked for: none, a role
\* of admin, of user, a role that is a number, a map without a role
GateCustomMaps ==
    { NilMap,
      GoMap([k \in {"role"} |-> "admin"]),
      GoMap([k \in {"role"} |-> "user"]),
      GoMap([k \in {"role"} |-> JsonNumber]),
      GoMap([k \in {"username"} |-> "admin"]) }

\* a request without an Authorization header, or without ?token=
NoToken == [Malformed EXCEPT !.alg = "absent"]
\* what a client may put in the header or in ?token=: nothing, a token the
\* server minted, one signed with a key that is not the server's, a correctly
\* signed one without exp
GateCrafted(algo) ==
    { MkToken(algo, "other", "u1", 0, 1, NilMap),
      MkToken(algo, ServerKey(algo), "u1", 0, NoExp, NilMap) }
GatePresentable == IssuedTokens \cup GateCrafted(jwtAlgo)
GateTokens == {NoToken} \cup GatePresentable
GateRoutes == {"photo", "users"}
\* the photo ids a request may name: the stored photo and an unknown id
GateIds == 1..2

\* adminMiddleware's test of the custom claims in the request context
\* variant: any role that is a string passes
IsAdminClaims_AnyRole(custom) ==
    /\ "role" \in DOMAIN custom.kv
    /\ IsJsonString(custom.kv["role"])
IsAdminClaims(custom) ==
    /\ "role" \in DOMAIN custom.kv
    /\ IsJsonString(custom.kv["role"])
    /\ custom.kv["role"] = "admin"

\* a request slot past Middleware: the route, the id, what the client sent,
\* and what Middleware put in the context and in X-User-Id
GateSlot(pc, id, hdr, query, user, custom) ==
    [At(pc, id, <<"", 0>>, "", <<>>, 0) EXCEPT !.key = <<"", 0>>]
        @@ [hdr |-> hdr, query |-> query, user |-> user, custom |-> custom]

\* the server boots over one stored photo; JWT_ALGO at its default
InitGate ==
    /\ InitAuthWith({"HS256"}, {RateBurst})
    /\ InitPhotosWith({1}) /\ InitUsers /\ InitPlugins /\ InitPool

\* Service.Middleware in front of a route of protectedRouter
Middleware(p, route, id, hdr, query) ==
    /\ http[p].pc = "idle"
    /\ route = "users" => query = NoToken /\ id = 1
    /\ rateTokens = 0 \/ rateTokens > RateBurst - MaxGateValidations
    /\ IF hdr = NoToken
       THEN /\ Respond(p, Resp(route, id, 401))
            /\ authRes' = NoCall
            /\ UNCHANGED rateTokens
       ELSE LET v == ValidateToken(jwtAlgo, Allow(rateTokens), tokenBlacklist, hdr, now) IN
            /\ rateTokens' = TakeToken(rateTokens)
            /\ authRes' = [call |-> "validate", tok |-> hdr, res |-> v]
            /\ IF v.err # "ok"
               THEN Respond(p, Resp(route, id, 401))
               ELSE Goto(p, GateSlot(route, id, hdr, query, v.sub, v.custom))
    /\ UNCHANGED <<pluginVars, poolVars, jwtAlgo, now, tokenBlacklist, issued, revoked, photos, objects, nextId,
                   published, pending, publishers, worker, faults, storeErr, uploads, userVars>>

\* photoHandler behind Middleware: the ?token= check, then the row and the blob
GatePhoto(p) ==
    /\ http[p].pc = "photo"
    /\ LET r == http[p]
           hasTokenParam == r.query # NoToken
           v == ValidateToken(jwtAlgo, Allow(rateTokens), tokenBlacklist, r.query, now)
       IN
        /\ rateTokens' = IF hasTokenParam THEN TakeToken(rateTokens) ELSE rateTokens
        /\ authRes' = IF hasTokenParam
                      THEN [call |-> "validate_query", tok |-> r.query, res |-> v]
                      ELSE NoCall
        /\ IF ~PhotoAuthorized(hasTokenParam, v.err, r.user)
           THEN Respond(p, Resp("photo", r.id, 401))
           ELSE IF r.id \notin ListPhotos(photos)
           THEN Respond(p, Resp("photo", r.id, 404))
           ELSE IF photos[r.id].s3_key \notin DOMAIN objects
           THEN Respond(p, Resp("photo", r.id, 500))
           ELSE Respond(p, [Resp("photo", r.id, 200) EXCEPT
                                !.data = objects[photos[r.id].s3_key].data,
                                !.ctype = photos[r.id].mime])
    /\ UNCHANGED <<pluginVars, poolVars, jwtAlgo, now, tokenBlacklist, issued, revoked, photos, objects, nextId,
                   published, pending, publishers, worker, faults, storeErr, uploads, userVars>>

\* adminMiddleware in front of the routes of userRouter
AdminMiddleware(p) ==
    /\ http[p].pc = "users"
    /\ IF IsAdminClaims(http[p].custom)
       THEN Goto(p, [http[p] EXCEPT !.pc = "user_handler"])
       ELSE Respond(p, Resp("users", http[p].id, 403))
    /\ authRes' = NoCall
    /\ UNCHANGED <<pluginVars, poolVars, jwtAlgo, now, rateTokens, tokenBlacklist, issued, revoked, photos, objects,
                   nextId, published, pending, publishers, worker, faults, storeErr, uploads,
                   userVars>>

\* listUsersHandler, the user handler behind both middlewares
UsersList(p) ==
    /\ http[p].pc = "user_handler"
    /\ Respond(p, [Resp("users", http[p].id, 200) EXCEPT !.count = Cardinality(DOMAIN users)])
    /\ authRes' = NoCall
    /\ UNCHANGED <<pluginVars, poolVars, jwtAlgo, now, rateTokens, tokenBlacklist, issued, revoked, photos, objects,
                   nextId, published, pending, publishers, worker, faults, storeErr, uploads,
                   userVars>>

\* a burst of ValidateToken calls by other clients takes every token left
Drain ==
    /\ rateTokens > 0
    /\ rateTokens' = 0
    /\ authRes' = NoCall
    /\ UNCHANGED <<pluginVars, poolVars, jwtAlgo, now, tokenBlacklist, issued, revoked, photoVars, userVars>>

NextGate ==
    \/ \E customClaims \in GateCustomMaps : AuthGenerate("u1", customClaims)
    \/ \E tok \in GatePresentable : AuthRevoke(tok)
    \/ Tick
    \/ Drain
    \/ \E p \in Procs, route \in GateRoutes, id \in GateIds, hdr \in GateTokens,
          query \in GateTokens : Middleware(p, route, id, hdr, query)
    \/ \E p \in Procs : GatePhoto(p)
    \/ \E p \in Procs : AdminMiddleware(p)
    \/ \E p \in Procs : UsersList(p)

SpecGate == InitGate /\ [][NextGate]_vars

(***************************************************************************)
(* SpecUsers: user management and login                                    *)
(***************************************************************************)
\* a JSON member of UpdateUserRequest that is absent (a nil pointer)
Unset == "nil"

UserRow(username, password, role) ==
    [username |-> username, password |-> password, role |-> role, active |-> TRUE,
     last_login |-> Null]
UserByUsername(tbl, username) == {i \in DOMAIN tbl : tbl[i].username = username}

\* deleteUserHandler's count over the rows ListUsers returned
AdminCount(tbl) == Cardinality({i \in DOMAIN tbl : tbl[i].role = "admin"})

\* Manager.Authenticate: the user, when the username has a row and the
\* password matches its hash
Authenticated(tbl, username, password) ==
    {i \in UserByUsername(tbl, username) : tbl[i].password = password}

\* the status and body loginHandler answers with
\* variant: an unknown username is told apart from a wrong password
LoginResponse_UserNotFound(tbl, username, password) ==
    IF username = "" \/ password = ""
    THEN [Resp("login", 0, 400) EXCEPT !.data = "Username and password are required"]
    ELSE IF UserByUsername(tbl, username) = {}
    THEN [Resp("login", 0, 404) EXCEPT !.data = "User not found"]
    ELSE IF Authenticated(tbl, username, password) = {}
    THEN [Resp("login", 0, 401) EXCEPT !.data = "Invalid credentials"]
    ELSE IF \E i \in Authenticated(tbl, username, password) : ~tbl[i].active
    THEN [Resp("login", 0, 403) EXCEPT !.data = "Account is inactive"]
    ELSE [Resp("login", 0, 200) EXCEPT !.data = "token", !.ctype = "application/json"]
LoginResponse(tbl, username, password) ==
    IF username = "" \/ password = ""
    THEN [Resp("login", 0, 400) EXCEPT !.data = "Username and password are required"]
    ELSE IF Authenticated(tbl, username, password) = {}
    THEN [Resp("login", 0, 401) EXCEPT !.data = "Invalid credentials"]
    ELSE IF \E i \in Authenticated(tbl, username, password) : ~tbl[i].active
    THEN [Resp("login", 0, 403) EXCEPT !.data = "Account is inactive"]
    ELSE [Resp("login", 0, 200) EXCEPT !.data = "token", !.ctype = "application/json"]

\* the custom claims loginHandler puts in the token
LoginClaims(row) ==
    GoMap([k \in {"role", "username"} |-> IF k = "role" THEN row.role ELSE row.username])

\* a request slot inside deleteUserHandler
UserSlot(pc, uid) == [IdleSlot EXCEPT !.pc = pc] @@ [uid |-> uid]

\* the requests below are past both middlewares
InitUsersSpec ==
    /\ InitAuthWith({"HS256"}, {RateBurst})
    /\ InitPhotos /\ InitUsers /\ InitPlugins /\ InitPool

\* createUserHandler -> Manager.CreateUser
CreateUser(username, password, role) ==
    /\ nextUserId <= MaxUsers
    /\ IF username = "" \/ password = ""
       THEN /\ Answer(Resp("create_user", 0, 400))
            /\ UNCHANGED userVars
       ELSE IF UserByUsername(users, username) # {}
       THEN /\ Answer(Resp("create_user", 0, 409))
            /\ UNCHANGED userVars
       ELSE /\ users' = Put(users, UserIdSeq[nextUserId],
                            UserRow(username, password, IF role = "" THEN "user" ELSE role))
            /\ nextUserId' = nextUserId + 1
            /\ Answer(Resp("create_user", 0, 201))
    /\ UNCHANGED <<pluginVars, poolVars, authVars, photos, objects, nextId, published, pending, publishers, worker,
                   faults, storeErr, uploads>>

\* updateUserHandler -> Manager.UpdateUser: the members that are set replace
\* the row's
UpdateUser(id, role, active) ==
    /\ IF id \notin DOMAIN users
       THEN /\ Answer(Resp("update_user", 0, 404))
            /\ UNCHANGED users
       ELSE /\ users' = [users EXCEPT
                            ![id].role = IF role = Unset THEN @ ELSE role,
                            ![id].active = IF active = Unset THEN @ ELSE active = "true"]
            /\ Answer(Resp("update_user", 0, 200))
    /\ UNCHANGED <<pluginVars, poolVars, authVars, photos, objects, nextId, published, pending, publishers, worker,
                   faults, storeErr, uploads, nextUserId>>

\* deleteUserHandler: ListUsers, the count of admins, the last-admin test
DeleteUserList(p, id) ==
    /\ http[p].pc = "idle"
    /\ LET isAdmin == id \in DOMAIN users /\ users[id].role = "admin" IN
       IF isAdmin /\ AdminCount(users) <= 1
       THEN Respond(p, Resp("delete_user", 0, 400))
       ELSE Goto(p, UserSlot("delete_user_row", id))
    /\ UNCHANGED <<pluginVars, poolVars, authVars, photos, objects, nextId, published, pending, publishers, worker,
                   faults, storeErr, uploads, userVars>>

\* deleteUserHandler: Manager.DeleteUser
DeleteUserRow(p) ==
    /\ http[p].pc = "delete_user_row"
    /\ IF http[p].uid \notin DOMAIN users
       THEN /\ Respond(p, Resp("delete_user", 0, 404))
            /\ UNCHANGED users
       ELSE /\ users' = Remove(users, http[p].uid)
            /\ Respond(p, Resp("delete_user", 0, 204))
    /\ UNCHANGED <<pluginVars, poolVars, authVars, photos, objects, nextId, published, pending, publishers, worker,
                   faults, storeErr, uploads, nextUserId>>

\* loginHandler -> Manager.Authenticate, Service.GenerateToken
LoginHandler(username, password) ==
    LET auth == IF username = "" \/ password = "" THEN {}
                ELSE Authenticated(users, username, password)
        resp == LoginResponse(users, username, password)
    IN
    /\ Answer(resp)
    /\ users' = [i \in DOMAIN users |->
                    IF i \in auth THEN [users[i] EXCEPT !.last_login = now] ELSE users[i]]
    /\ IF resp.status = 200
       THEN LET i == CHOOSE x \in auth : TRUE
                tok == GenerateToken(jwtAlgo, i, LoginClaims(users[i]), now)
            IN /\ issued' = issued \cup {[tok |-> tok, sub |-> i, custom |-> LoginClaims(users[i])]}
               /\ authRes' = [call |-> "generate", tok |-> tok, res |-> Reject("")]
       ELSE /\ authRes' = NoCall
            /\ UNCHANGED issued
    /\ UNCHANGED <<pluginVars, poolVars, jwtAlgo, now, rateTokens, tokenBlacklist, revoked, photos, objects, nextId,
                   published, pending, publishers, worker, faults, storeErr, uploads,
                   nextUserId>>

NextUsers ==
    \/ \E username \in Usernames \cup {""}, password \in Passwords, role \in Roles \cup {""} :
          CreateUser(username, password, role)
    \/ \E id \in UserIds, role \in Roles \cup {Unset},
          active \in {"true", "false", Unset} : UpdateUser(id, role, active)
    \/ \E p \in Procs, id \in UserIds : DeleteUserList(p, id)
    \/ \E p \in Procs : DeleteUserRow(p)
    \/ \E username \in Usernames \cup {""}, password \in Passwords :
          LoginHandler(username, password)

SpecUsers == InitUsersSpec /\ [][NextUsers]_vars

(***************************************************************************)
(* SpecDeletes: concurrent deleteUserHandler requests with two admins      *)
(***************************************************************************)
Deleters == 1..NumDeleters

\* the users table holds exactly two users, both admin and active; every
\* request slot is idle
InitDeletes ==
    /\ InitAuthWith({"HS256"}, {RateBurst})
    /\ photos = <<>> /\ objects = <<>> /\ nextId = 1
    /\ published = {} /\ pending = {} /\ publishers = {}
    /\ http = [p \in Deleters |-> IdleSlot]
    /\ lastResp = NoResp
    /\ worker = WorkerIdle
    /\ faults = 0 /\ storeErr = FALSE
    /\ uploads = <<>>
    /\ users = [i \in {UserIdSeq[1], UserIdSeq[2]} |->
                    IF i = UserIdSeq[1] THEN DefaultAdmin
                    ELSE UserRow("bob", "pw", "admin")]
    /\ nextUserId = 3
    /\ InitPlugins /\ InitPool

NextDeletes ==
    \/ \E p \in Deleters, id \in {UserIdSeq[1], UserIdSeq[2]} : DeleteUserList(p, id)
    \/ \E p \in Deleters : DeleteUserRow(p)
    \/ \E username \in Usernames, password \in Passwords : LoginHandler(username, password)

SpecDeletes == InitDeletes /\ [][NextDeletes]_vars

(***************************************************************************)
(* SpecPlugins: the plugin supervisor and plugin-driven auth                *)
(***************************************************************************)
PluginPaths == 1..MaxPlugins
AuthReqs == 1..NumAuthReqs

\* what the select of loadPlugin receives: the PORT line, a scanner error,
\* or the 5 s timer
PortOutcomes == {"port", "error", "timeout"}
\* what healthClient.Check returns: a response with a status, or an error
\* (the 5 s deadline included)
HealthOutcomes == {"SERVING", "NOT_SERVING", "UNKNOWN", "error"}
\* what plugin.ValidateToken returns: a response, or an error (the 200 ms
\* deadline included)
PluginResponses ==
    { [err |-> FALSE, ok |-> TRUE, user |-> "u1"],
      [err |-> FALSE, ok |-> TRUE, user |-> "u2"],
      [err |-> FALSE, ok |-> FALSE, user |-> ""],
      [err |-> TRUE, ok |-> FALSE, user |-> ""] }

\* the WalkDir callback returns nil whatever loadPlugin returned: the walk
\* goes to the next file, and after the last one Init returns and main serves
AfterPlugin(h) ==
    IF h.idx = MaxPlugins THEN [pc |-> "serving", idx |-> h.idx]
    ELSE [pc |-> "start", idx |-> h.idx + 1]

\* loadPlugin's test of the health check: only the error is looked at
HealthPasses(st) == st # "error"

\* one call of the closure Auth hands to ForEach: an error is logged and
\* skipped, an ok response sets authenticated and userId; the closure always
\* returns nil, so ForEach goes on to the next plugin
\* variant: an error of a plugin ends the fan-out
FanoutStep_AbortOnError(f, plugin, resp) ==
    [f EXCEPT !.i = IF resp.err THEN Len(Registry) + 1 ELSE @ + 1,
              !.authenticated = IF ~resp.err /\ resp.ok THEN TRUE ELSE @,
              !.userId = IF ~resp.err /\ resp.ok THEN resp.user ELSE @,
              !.calls = Append(@, [plugin |-> plugin, resp |-> resp])]
FanoutStep(f, plugin, resp) ==
    [f EXCEPT !.i = @ + 1,
              !.authenticated = IF ~resp.err /\ resp.ok THEN TRUE ELSE @,
              !.userId = IF ~resp.err /\ resp.ok THEN resp.user ELSE @,
              !.calls = Append(@, [plugin |-> plugin, resp |-> resp])]

\* the host of core/main.go at the call of loader.Init
InitPluginHost ==
    /\ InitAuthWith({"HS256"}, {RateBurst})
    /\ InitPhotos /\ InitUsers /\ InitPluginsAt("start") /\ InitPool

\* loadPlugin: cmd.Start and the append to pluginProcesses
LoadStart ==
    /\ host.pc = "start"
    /\ \E ok \in BOOLEAN :
        IF ok
        THEN /\ children' = [children EXCEPT ![host.idx].proc = "running"]
             /\ pluginProcesses' = Append(pluginProcesses, host.idx)
             /\ host' = [host EXCEPT !.pc = "wait_port"]
        ELSE /\ host' = AfterPlugin(host)
             /\ UNCHANGED <<children, pluginProcesses>>
    /\ lastResp' = NoResp
    /\ UNCHANGED <<Registry, mutex, fan, poolVars, authVars, userVars, photos, objects, nextId,
                   published, pending, publishers, http, worker, faults, storeErr, uploads>>

\* loadPlugin: the select on portChan, errChan and time.After(5 s); on an
\* error or the timeout it returns, and the child is left as it is
LoadPort ==
    /\ host.pc = "wait_port"
    /\ \E out \in PortOutcomes :
        /\ children' = [children EXCEPT ![host.idx].port = out]
        /\ host' = IF out = "port" THEN [host EXCEPT !.pc = "health"] ELSE AfterPlugin(host)
    /\ lastResp' = NoResp
    /\ UNCHANGED <<Registry, pluginProcesses, mutex, fan, poolVars, authVars, userVars, photos,
                   objects, nextId, published, pending, publishers, http, worker, faults,
                   storeErr, uploads>>

\* loadPlugin: grpc.Dial, healthClient.Check with a 5 s deadline, and the
\* append to Registry
LoadHealth ==
    /\ host.pc = "health"
    /\ \E st \in HealthOutcomes :
        /\ children' = [children EXCEPT ![host.idx].health = st]
        /\ Registry' = IF HealthPasses(st) THEN Append(Registry, host.idx) ELSE Registry
    /\ host' = AfterPlugin(host)
    /\ lastResp' = NoResp
    /\ UNCHANGED <<pluginProcesses, mutex, fan, poolVars, authVars, userVars, photos, objects,
                   nextId, published, pending, publishers, http, worker, faults, storeErr,
                   uploads>>

\* SIGINT or SIGTERM: no handler is installed and the goroutine of
\* setupCleanup waits on context.Background().Done(), which never fires, so
\* the host ends by the signal's default action and cleanup is never called
HostSignal ==
    /\ host.pc # "exited"
    /\ host' = [host EXCEPT !.pc = "exited"]
    /\ lastResp' = NoResp
    /\ UNCHANGED <<children, Registry, pluginProcesses, mutex, fan, poolVars, authVars,
                   userVars, photos, objects, nextId, published, pending, publishers, http,
                   worker, faults, storeErr, uploads>>

\* middleware.Auth up to ForEach's mutex.Lock: the bypass of an empty
\* registry, the Authorization header
FanBegin(r, hasHeader) ==
    /\ host.pc = "serving"
    /\ fan[r].pc = "idle"
    /\ IF Len(Registry) = 0
       THEN /\ fan' = [fan EXCEPT ![r] = IdleFan]
            /\ lastResp' = Resp("plugin_auth", r, 200)
            /\ UNCHANGED mutex
       ELSE IF ~hasHeader
       THEN /\ fan' = [fan EXCEPT ![r] = IdleFan]
            /\ lastResp' = Resp("plugin_auth", r, 401)
            /\ UNCHANGED mutex
       ELSE /\ mutex = 0
            /\ mutex' = r
            /\ fan' = [fan EXCEPT ![r] = [IdleFan EXCEPT !.pc = "calling", !.i = 1]]
            /\ lastResp' = NoResp
    /\ UNCHANGED <<children, Registry, pluginProcesses, host, poolVars, authVars, userVars,
                   photos, objects, nextId, published, pending, publishers, http, worker,
                   faults, storeErr, uploads>>

\* ForEach: one call of the closure, plugin.ValidateToken with a 200 ms
\* deadline
FanCall(r) ==
    /\ host.pc = "serving"
    /\ fan[r].pc = "calling"
    /\ fan[r].i <= Len(Registry)
    /\ \E resp \in PluginResponses :
          fan' = [fan EXCEPT ![r] = FanoutStep(@, Registry[fan[r].i], resp)]
    /\ lastResp' = NoResp
    /\ UNCHANGED <<children, Registry, pluginProcesses, host, mutex, poolVars, authVars,
                   userVars, photos, objects, nextId, published, pending, publishers, http,
                   worker, faults, storeErr, uploads>>

\* ForEach returns and unlocks; Auth answers 401 or sets X-User-Id and calls
\* the next handler
FanEnd(r) ==
    /\ host.pc = "serving"
    /\ fan[r].pc = "calling"
    /\ fan[r].i > Len(Registry)
    /\ mutex' = 0
    /\ fan' = [fan EXCEPT ![r].pc = "idle"]
    /\ lastResp' = IF fan[r].authenticated
                   THEN [Resp("plugin_auth", r, 200) EXCEPT !.data = fan[r].userId]
                   ELSE Resp("plugin_auth", r, 401)
    /\ UNCHANGED <<children, Registry, pluginProcesses, host, poolVars, authVars, userVars,
                   photos, objects, nextId, published, pending, publishers, http, worker,
                   faults, storeErr, uploads>>

NextPlugins ==
    \/ LoadStart
    \/ LoadPort
    \/ LoadHealth
    \/ HostSignal
    \/ \E r \in AuthReqs, hasHeader \in BOOLEAN : FanBegin(r, hasHeader)
    \/ \E r \in AuthReqs : FanCall(r)
    \/ \E r \in AuthReqs : FanEnd(r)

SpecPlugins == InitPluginHost /\ [][NextPlugins]_vars

(***************************************************************************)
(* SpecPool: the thumbnailer's worker pool                                 *)
(***************************************************************************)
\* the photos uploaded before the thumbnailer starts: photo 1 is an image
\* that already has a thumbnail of another size, photo 2 carries an image
\* MIME type over bytes that do not decode
PoolIds == 1..2
PoolData(id) == IF id = 1 THEN "imgA" ELSE "junk"
PoolMsg(id) == Msg("photo.uploaded", id, "image/png", PrimaryKey(id))
OtherThumb == <<"thumb/256", 1>>

InitPoolPhotos ==
    /\ photos = [i \in PoolIds |->
                    [NewRow(PrimaryKey(i), "image/png") EXCEPT
                        !.thumbnails = IF i = 1 THEN Put(<<>>, "256", OtherThumb) ELSE <<>>]]
    /\ objects = [k \in {PrimaryKey(i) : i \in PoolIds} \cup {OtherThumb} |->
                    IF k = OtherThumb
                    THEN [data |-> <<"jpeg256", "imgA">>, ctype |-> "image/jpeg"]
                    ELSE [data |-> PoolData(k[2]), ctype |-> "image/png"]]
    /\ nextId = Cardinality(PoolIds) + 1
    /\ published = {PoolMsg(i) : i \in PoolIds}
    /\ pending = {}
    /\ publishers = {}
    /\ http = [p \in Procs |-> IdleSlot]
    /\ lastResp = NoResp
    /\ worker = WorkerIdle
    /\ faults = 0
    /\ storeErr = FALSE
    /\ uploads = [i \in PoolIds |->
                    [data |-> PoolData(i), hmime |-> "image/png", touched |-> FALSE]]

InitPoolSpec ==
    /\ InitAuthWith({"HS256"}, {RateBurst})
    /\ InitPoolPhotos /\ InitUsers /\ InitPlugins
    /\ InitPoolWith({PoolMsg(i) : i \in PoolIds})

\* the goroutine of handlePhotoUploaded at its start
NewJob ==
    [pc |-> "process", retries |-> 0, backoff |-> InitialBackoff, waits |-> <<>>,
     results |-> <<>>, jpeg |-> <<"", "">>]

\* <-t.workerPool receives when the channel holds a slot
\* variant: the receive never blocks
SlotFree_Always(n) == TRUE
SlotFree(n) == n > 0

\* backoff *= 2
\* variant: the wait stays what it was
NextBackoff_Constant(b) == b
NextBackoff(b) == b * 2

\* processMessage returned an error: Nak when retries == MaxRetries, else
\* sleep and retry
JobFailed(j, why) ==
    [j EXCEPT !.pc = IF j.retries = MaxRetries THEN "nak" ELSE "sleep",
              !.results = Append(@, why)]

\* the deliveries of a message the stream has made or holds
Known(d) ==
    \/ d \in broker
    \/ d = callback
    \/ d \in DOMAIN jobs
    \/ \E x \in settled : x.d = d
\* what the stream holds after it is told, or decides, to deliver again
Redelivered(d) ==
    IF d.n < MaxDeliveries /\ ~Known([d EXCEPT !.n = @ + 1])
    THEN broker \cup {[d EXCEPT !.n = @ + 1]}
    ELSE broker

\* what the steps of the pool leave alone
poolOthers ==
    <<pluginVars, authVars, userVars, nextId, published, pending, publishers, http, worker,
      storeErr, uploads>>

\* the subscription's dispatcher calls handlePhotoUploaded with the next
\* message; it makes one call at a time
Deliver(d) ==
    /\ callback = NoDelivery
    /\ d \in broker
    /\ broker' = broker \ {d}
    /\ callback' = d
    /\ lastResp' = NoResp
    /\ UNCHANGED <<workerPool, jobs, settled, photos, objects, faults, poolOthers>>

\* handlePhotoUploaded: <-t.workerPool, wg.Add(1), go func()
Acquire ==
    /\ callback # NoDelivery
    /\ SlotFree(workerPool)
    /\ workerPool' = workerPool - 1
    /\ jobs' = Put(jobs, callback, NewJob)
    /\ callback' = NoDelivery
    /\ lastResp' = NoResp
    /\ UNCHANGED <<broker, settled, photos, objects, faults, poolOthers>>

\* the stream's AckWait runs out on a delivery that is not settled yet
AckWait(d) ==
    /\ d \in DOMAIN jobs \/ (d = callback /\ d # NoDelivery)
    /\ broker' = Redelivered(d)
    /\ broker' # broker
    /\ lastResp' = NoResp
    /\ UNCHANGED <<workerPool, callback, jobs, settled, photos, objects, faults, poolOthers>>

\* processMessage up to the JPEG: a non-image MIME returns nil; else
\* GetObject of the primary key, image.Decode, resize, encode
JobFetch(d) ==
    /\ d \in DOMAIN jobs
    /\ jobs[d].pc = "process"
    /\ \E ok \in Outcomes :
        LET m == d.msg IN
        /\ Fault(ok)
        /\ jobs' = [jobs EXCEPT ![d] =
                IF ~HasImagePrefix(m.mime) THEN [@ EXCEPT !.pc = "ack", !.results = Append(@, "ok")]
                ELSE IF ~ok \/ m.s3_key \notin DOMAIN objects THEN JobFailed(@, "store")
                ELSE IF ~Decodable(objects[m.s3_key].data) THEN JobFailed(@, "decode")
                ELSE [@ EXCEPT !.pc = "put", !.jpeg = ThumbOf(objects[m.s3_key].data)]]
    /\ lastResp' = NoResp
    /\ UNCHANGED <<workerPool, callback, broker, settled, photos, objects, poolOthers>>

\* PutObject of the thumbnail at thumb/512/<id>.jpg as image/jpeg
JobPut(d) ==
    /\ d \in DOMAIN jobs
    /\ jobs[d].pc = "put"
    /\ \E ok \in Outcomes :
        /\ Fault(ok)
        /\ IF ok
           THEN /\ objects' = Put(objects, ThumbKey(d.msg.id),
                                  [data |-> jobs[d].jpeg, ctype |-> "image/jpeg"])
                /\ jobs' = [jobs EXCEPT ![d].pc = "merge"]
           ELSE /\ jobs' = [jobs EXCEPT ![d] = JobFailed(@, "store")]
                /\ UNCHANGED objects
    /\ lastResp' = NoResp
    /\ UNCHANGED <<workerPool, callback, broker, settled, photos, poolOthers>>

\* the UPDATE of meta.thumbnails; processMessage returns nil
JobMerge(d) ==
    /\ d \in DOMAIN jobs
    /\ jobs[d].pc = "merge"
    /\ \E ok \in Outcomes :
        /\ Fault(ok)
        /\ IF ok
           THEN /\ photos' = MergeThumbnail(photos, d.msg.id)
                /\ jobs' = [jobs EXCEPT ![d].pc = "ack", ![d].results = Append(@, "ok")]
           ELSE /\ jobs' = [jobs EXCEPT ![d] = JobFailed(@, "store")]
                /\ UNCHANGED photos
    /\ lastResp' = NoResp
    /\ UNCHANGED <<workerPool, callback, broker, settled, objects, poolOthers>>

\* time.Sleep(backoff); backoff *= 2; retries++
JobSleep(d) ==
    /\ d \in DOMAIN jobs
    /\ jobs[d].pc = "sleep"
    /\ jobs' = [jobs EXCEPT ![d].pc = "process",
                            ![d].waits = Append(@, jobs[d].backoff),
                            ![d].backoff = NextBackoff(@),
                            ![d].retries = @ + 1]
    /\ lastResp' = NoResp
    /\ UNCHANGED <<workerPool, callback, broker, settled, photos, objects, faults, poolOthers>>

\* msg.Ack() after processMessage returned nil
JobAck(d) ==
    /\ d \in DOMAIN jobs
    /\ jobs[d].pc = "ack"
    /\ settled' = settled \cup
            {[d |-> d, outcome |-> "ack", results |-> jobs[d].results, waits |-> jobs[d].waits]}
    /\ jobs' = [jobs EXCEPT ![d].pc = "release"]
    /\ lastResp' = NoResp
    /\ UNCHANGED <<workerPool, callback, broker, photos, objects, faults, poolOthers>>

\* msg.Nak() after the last retry failed: the stream delivers the message again
JobNak(d) ==
    /\ d \in DOMAIN jobs
    /\ jobs[d].pc = "nak"
    /\ settled' = settled \cup
            {[d |-> d, outcome |-> "nak", results |-> jobs[d].results, waits |-> jobs[d].waits]}
    /\ broker' = Redelivered(d)
    /\ jobs' = [jobs EXCEPT ![d].pc = "release"]
    /\ lastResp' = NoResp
    /\ UNCHANGED <<workerPool, callback, photos, objects, faults, poolOthers>>

\* the deferred function: t.workerPool <- struct{}{}, wg.Done()
JobRelease(d) ==
    /\ d \in DOMAIN jobs
    /\ jobs[d].pc = "release"
    /\ workerPool' = workerPool + 1
    /\ jobs' = Remove(jobs, d)
    /\ lastResp' = NoResp
    /\ UNCHANGED <<callback, broker, settled, photos, objects, faults, poolOthers>>

\* every delivery of the run
Deliveries == {[msg |-> PoolMsg(i), n |-> n] : i \in PoolIds, n \in 1..MaxDeliveries}

NextPool ==
    \/ \E d \in Deliveries : Deliver(d)
    \/ Acquire
    \/ \E d \in Deliveries : AckWait(d)
    \/ \E d \in Deliveries : JobFetch(d)
    \/ \E d \in Deliveries : JobPut(d)
    \/ \E d \in Deliveries : JobMerge(d)
    \/ \E d \in Deliveries : JobSleep(d)
    \/ \E d \in Deliveries : JobAck(d)
    \/ \E d \in Deliveries : JobNak(d)
    \/ \E d \in Deliveries : JobRelease(d)

SpecPool == InitPoolSpec /\ [][NextPool]_vars

(***************************************************************************)
(* Properties                                                              *)
(***************************************************************************)
\* the rows of each status, read off the table
ActiveRows == {i \in DOMAIN photos : photos[i].status = "active"}
TrashedRows == {i \in DOMAIN photos : photos[i].status = "trashed"}
\* the step is a call of slot p's handler
Moved(p) == http'[p] # http[p]
\* the step met no injected failure
NoFault == faults' = faults

\* ---- C1 ----
\* what one trash or restore request does when the store answers
TrashRestoreStep(conflict) ==
    \A id \in DOMAIN photos :
        /\ (lastResp'.op = "trash" /\ lastResp'.id = id /\ NoFault) =>
              IF photos[id].status = "active"
              THEN /\ lastResp'.status = 200
                   /\ photos'[id].status = "trashed"
                   /\ \A j \in DOMAIN photos \ {id} : photos'[j] = photos[j]
              ELSE /\ lastResp'.status = conflict
                   /\ photos' = photos
        /\ (lastResp'.op = "restore" /\ lastResp'.id = id /\ NoFault) =>
              IF photos[id].status = "trashed"
              THEN /\ lastResp'.status = 200
                   /\ photos'[id].status = "active"
                   /\ \A j \in DOMAIN photos \ {id} : photos'[j] = photos[j]
              ELSE /\ lastResp'.status = conflict
                   /\ photos' = photos

\* C1 as stated: a trash request on an active row answers 200 and leaves the
\* row trashed; a trash request on an already trashed row changes nothing and
\* answers 409 (Conflict); restore follows the mirror rule.
C1_Conflict409 == [][TrashRestoreStep(409)]_vars

\* ---- C2 ----
\* C2: in every reachable state, every row has status trashed exactly when
\* its deleted_at is non-null.
C2_StatusIffDeletedAt ==
    \A id \in DOMAIN photos :
        (photos[id].status = "trashed") <=> (photos[id].deleted_at # Null)

\* a row that was trashed has just been restored
C2_Witness ==
    \E id \in DOMAIN photos :
        /\ lastResp = Resp("restore", id, 200)
        /\ photos[id].status = "active"

\* ---- C3 ----
\* every row is in exactly one listing, the listings are what the two list
\* endpoints return, and a purged id has no row
ListingsPartition ==
    /\ \A id \in DOMAIN photos : (id \in ActiveRows) # (id \in TrashedRows)
    /\ (lastResp.op = "list" /\ lastResp.status = 200) => lastResp.ids = ActiveRows
    /\ (lastResp.op = "list_trash" /\ lastResp.status = 200) => lastResp.ids = TrashedRows
    /\ (lastResp.op = "purge" /\ lastResp.status = 204) => lastResp.id \notin DOMAIN photos
\* a GET of an id without a row, with a valid credential and a working
\* store, answers 404
GetOfAbsentStep ==
    \A p \in Procs, id \in PhotoIds :
        (PhotoList(p, id) /\ id \notin DOMAIN photos /\ NoFault /\ rateTokens' = rateTokens)
            => lastResp' = Resp("get", id, 404)

\* C3: every existing id is in exactly one of the two listings (GET
\* /api/photos returns the active rows, GET /api/photos/trash the trashed
\* rows); after a purge-single the id has no row, so it is in neither, and a
\* GET /api/photo/{id} of it answers 404.
C3_Listings == []ListingsPartition /\ [][GetOfAbsentStep]_vars

\* a purge-single has just removed the row of its id
C3_Witness ==
    /\ lastResp.op = "purge"
    /\ lastResp.status = 204
    /\ lastResp.id \notin DOMAIN photos
    /\ lastResp.id < nextId

\* ---- C4 ----
EmptyTrashStep ==
    \A p \in Procs :
        (http[p].pc = "empty_objects" /\ Moved(p)
            /\ lastResp'.op = "empty" /\ lastResp'.status = 200) =>
                /\ {i \in DOMAIN photos' : photos'[i].status = "trashed"} = {}
                /\ lastResp'.count = http[p].n
                /\ \A i \in ActiveRows : i \in DOMAIN photos' /\ photos'[i] = photos[i]

\* C4 as stated: after a successful empty-trash the trash is empty, the count
\* in the response equals the number of trashed rows the handler listed
\* before deleting, and the active rows are unchanged.
C4_CountIsListed == [][EmptyTrashStep]_vars

\* ---- C5 ----
PurgeStep ==
    \A p \in Procs :
        \* an id that is not trashed is rejected and nothing is deleted; a
        \* trashed one starts with the primary key, the thumbnails queued
        /\ \A id \in PhotoIds :
              (PurgeList(p, id) /\ NoFault) =>
                  /\ photos' = photos /\ objects' = objects
                  /\ IF id \in TrashedRows
                     THEN /\ lastResp' = NoResp
                          /\ http'[p].pc = "purge_primary"
                          /\ http'[p].id = id
                          /\ http'[p].key = photos[id].s3_key
                          /\ \A s \in DOMAIN photos[id].thumbnails :
                                \E k \in 1..Len(http'[p].keys) :
                                    http'[p].keys[k] = photos[id].thumbnails[s]
                     ELSE lastResp' = Resp("purge", id, 404)
        \* the primary blob goes first; its failure ends the request with the
        \* table untouched
        /\ (http[p].pc = "purge_primary" /\ Moved(p)) =>
              /\ photos' = photos
              /\ IF NoFault
                 THEN /\ objects' = Remove(objects, http[p].key)
                      /\ http'[p] = [http[p] EXCEPT !.pc = "purge_thumbs"]
                      /\ lastResp' = NoResp
                 ELSE /\ objects' = objects
                      /\ lastResp' = Resp("purge", http[p].id, 500)
                      /\ http'[p].pc = "idle"
        \* every queued thumbnail is attempted, failed or not, before the row
        \* is deleted; the row goes only when it is trashed
        /\ (http[p].pc = "purge_thumbs" /\ Moved(p)) =>
              IF http[p].keys # <<>>
              THEN /\ photos' = photos
                   /\ lastResp' = NoResp
                   /\ http'[p] = [http[p] EXCEPT !.keys = Tail(@)]
                   /\ objects' = IF NoFault THEN Remove(objects, Head(http[p].keys))
                                 ELSE objects
              ELSE /\ objects' = objects
                   /\ IF NoFault /\ http[p].id \in TrashedRows
                      THEN /\ photos' = Remove(photos, http[p].id)
                           /\ lastResp' = Resp("purge", http[p].id, 204)
                      ELSE /\ photos' = photos
                           /\ lastResp' = Resp("purge", http[p].id, 500)

C6_RowHasBlob ==
    ((\A p \in Procs : http[p].pc = "idle") /\ ~storeErr) =>
        \A id \in DOMAIN photos : photos[id].s3_key \in DOMAIN objects

\* ---- C7 ----
GetStep ==
    \A p \in Procs :
        \* an active id is found and its object fetched
        /\ \A id \in PhotoIds :
              (PhotoList(p, id) /\ id \in ActiveRows /\ NoFault /\ rateTokens' = rateTokens)
                  => /\ http'[p].pc = "get_object"
                     /\ http'[p].id = id
                     /\ lastResp' = NoResp
        \* the fetch of the primary object streams the uploaded bytes under the
        \* uploaded MIME, and succeeds while nothing has trashed or deleted
        \* the photo
        /\ (http[p].pc = "get_object" /\ Moved(p) /\ http[p].key = PrimaryKey(http[p].id)) =>
              LET id == http[p].id IN
              /\ lastResp'.op = "get" /\ lastResp'.id = id
              /\ lastResp'.status = 200 =>
                    /\ lastResp'.data = uploads[id].data
                    /\ uploads[id].hmime # "" => lastResp'.ctype = uploads[id].hmime
              /\ (NoFault /\ ~uploads[id].touched) => lastResp'.status = 200

\* C7: after an upload of bytes B with part-header MIME M answered 201 {id},
\* a GET /api/photo/{id} without thumbnail parameter, while the photo is
\* still active, streams exactly B with Content-Type M.
C7_UploadRoundTrip == [][GetStep]_vars

\* a GET has just streamed an untouched photo uploaded with a MIME header
C7_Witness ==
    /\ lastResp.op = "get"
    /\ lastResp.status = 200
    /\ lastResp.id \in DOMAIN uploads
    /\ ~uploads[lastResp.id].touched
    /\ lastResp.ctype = "image/png"
    /\ lastResp.data = uploads[lastResp.id].data

\* ---- C8 ----
UploadStep ==
    \* the row of an id is inserted when its blob is already there
    /\ \A id \in DOMAIN photos' \ DOMAIN photos :
          /\ PrimaryKey(id) \in DOMAIN objects
          /\ photos'[id].s3_key = PrimaryKey(id)
    \* the publish of photo.uploaded is started by the step that inserts the row
    /\ \A g \in publishers' \ publishers :
          g.subject = "photo.uploaded" =>
              /\ g.id \in DOMAIN photos' \ DOMAIN photos
              /\ lastResp' = Resp("upload", g.id, 201)
    \* an upload that fails starts no publish
    /\ (lastResp'.op = "upload" /\ lastResp'.status # 201) => publishers' \subseteq publishers
    \* the broker receives only what a started publish sends
    /\ \A g \in published' \ published : g \in publishers

\* C8: upload writes the blob, then inserts the row, then publishes:
\* photo.uploaded is published only after both writes succeeded, and no
\* event is published when either write failed.
C8_UploadOrder == [][UploadStep]_vars

\* photo.uploaded has reached the broker for a photo with blob and row
C8_Witness ==
    \E g \in published :
        /\ g.subject = "photo.uploaded"
        /\ g.id \in DOMAIN photos
        /\ g.s3_key \in DOMAIN objects

HasExp(tok) == tok.alg # "malformed" /\ tok.exp # NoExp
\* a revoked token is refused with an error of one of the kinds for as long
\* as it is blacklisted, and a token with an exp stays blacklisted until the exp has passed
RevokedRefused(kinds) ==
    /\ \A tok \in revoked :
          (HasExp(tok) /\ ~(now > tok.exp)) => tok \in DOMAIN tokenBlacklist
    /\ (authRes.call = "validate" /\ authRes.tok \in DOMAIN tokenBlacklist
          /\ authRes.res.err # "rate_limit_exceeded") => authRes.res.err \in kinds
\* the sweeper drops an entry only after its deadline, which for a token with
\* an exp is that exp
SweepStep ==
    /\ \A tok \in DOMAIN tokenBlacklist :
          tok \notin DOMAIN tokenBlacklist' => now > tokenBlacklist[tok]
    /\ \A tok \in DOMAIN tokenBlacklist' :
          HasExp(tok) => tokenBlacklist'[tok] = tok.exp

ConfiguredFamily ==
    IF jwtAlgo = "HS256" THEN {"HS256", "HS384", "HS512"} ELSE {"RS256", "RS384", "RS512"}
GoodSignature(tok) ==
    /\ tok.alg \in ConfiguredFamily
    /\ tok.key = (IF jwtAlgo = "HS256" THEN "secret" ELSE "rsa")
\* a token whose exp claim, if any, has been reached
ExpReached(tok) == tok.exp # NoExp /\ ~(now < tok.exp)
\* the error of the first failing check, in the order limiter, blacklist,
\* signature, expiry, subject; revokedErr is the error of the blacklist check
ValidationOrderStep(revokedErr) ==
    authRes'.call = "validate" =>
        LET tok == authRes'.tok IN
        authRes'.res.err =
            IF rateTokens = 0 THEN "rate_limit_exceeded"
            ELSE IF tok \in DOMAIN tokenBlacklist THEN revokedErr
            ELSE IF ~GoodSignature(tok) THEN "parse_error"
            ELSE IF ExpReached(tok) THEN "token_expired"
            ELSE IF tok.sub = "" THEN "invalid_claims"
            ELSE "ok"

C12_ExpRequired ==
    (authRes.call = "validate" /\ authRes.res.err = "ok") =>
        /\ GoodSignature(authRes.tok)
        /\ authRes.tok.exp # NoExp
        /\ now < authRes.tok.exp
        /\ authRes.tok.sub # ""

\* ---- C13 ----
\* C13: validateToken never accepts a token whose header algorithm is not of
\* the family configured at boot (HMAC for HS256, RSA for RS256), whatever
\* its claims and whatever key material signed it.
C13_FamilyMismatchRejected ==
    (authRes.call = "validate" /\ authRes.tok.alg \notin ConfiguredFamily) =>
        authRes.res.err # "ok"

\* an admitted, unrevoked token of the other family, keyed with the server's
\* key material and carrying good claims, was just refused
C13_Witness ==
    /\ authRes.call = "validate"
    /\ authRes.tok.alg \in {"HS256", "RS256"} \ ConfiguredFamily
    /\ authRes.tok.key = ServerKey(jwtAlgo)
    /\ authRes.tok.sub # ""
    /\ authRes.tok \notin DOMAIN tokenBlacklist
    /\ authRes.res.err = "parse_error"

\* ---- C14 ----
\* a validation takes one token from the bucket or, when the bucket is empty,
\* is refused; a refill adds one token; nothing else moves the bucket while
\* the clock stands
LimiterStep ==
    /\ authRes'.call = "validate" =>
          IF rateTokens = 0
          THEN authRes'.res.err = "rate_limit_exceeded" /\ rateTokens' = 0
          ELSE authRes'.res.err # "rate_limit_exceeded" /\ rateTokens' = rateTokens - 1
    /\ (authRes'.call # "validate" /\ now' = now) =>
          rateTokens' \in {rateTokens, rateTokens + 1}

\* C14: the limiter is one process-wide bucket that starts with 30 tokens:
\* every validateToken call takes one, so once 30 calls have emptied it and
\* no refill has occurred every further call, for any token, returns
\* RateLimited; each refill tick admits exactly one further call.
C14_TokenBucket ==
    /\ rateTokens = RateBurst
    /\ [](rateTokens \in 0..RateBurst)
    /\ [][LimiterStep]_vars

\* the burst is used up and a call was just refused by the limiter
C14_Witness ==
    /\ authRes.call = "validate"
    /\ authRes.res.err = "rate_limit_exceeded"
    /\ rateTokens = 0
    /\ now = 0

\* ---- C15 ----
\* the step is a gate (Middleware or photoHandler's ?token= check) whose
\* validateToken call the limiter refused
GateRateLimited(p) ==
    /\ Moved(p)
    /\ authRes'.call \in {"validate", "validate_query"}
    /\ authRes'.res.err = "rate_limit_exceeded"

\* C15: the callers of validateToken (the auth middleware and the ?token=
\* path of the photo handler) do not treat RateLimited as an invalid token:
\* a request refused by the limiter is answered 429, where an invalid token
\* is answered 401.
C15_RateLimited429 ==
    [][\A p \in Procs : GateRateLimited(p) => lastResp'.status = 429]_vars

\* ---- C16 ----
\* a token the server minted that is neither expired nor revoked
ValidNow(tok) ==
    /\ tok \in IssuedTokens
    /\ tok.sub # ""
    /\ tok \notin DOMAIN tokenBlacklist
    /\ now < tok.exp
\* the photo is listed and its blob is stored
Readable(id) == id \in ActiveRows /\ photos[id].s3_key \in DOMAIN objects

\* C16: GET /api/photo/{id} of a stored photo that carries a valid token only
\* in ?token= and no Authorization header is admitted, and is answered 200
\* with the blob.
C16_QueryTokenAdmitted ==
    [][\A p \in Procs, id \in GateIds, q \in GateTokens :
        /\ (Middleware(p, "photo", id, NoToken, q) /\ ValidNow(q) /\ Readable(id)) =>
              lastResp' = NoResp /\ http'[p].pc = "photo"
        /\ (GatePhoto(p) /\ http[p].id = id /\ http[p].hdr = NoToken /\ http[p].query = q
                /\ ValidNow(q) /\ Readable(id) /\ rateTokens > 0) =>
              lastResp'.status = 200 /\ lastResp'.data = objects[photos[id].s3_key].data]_vars

\* ---- C17 ----
\* the ?token= value is one validateToken refuses now: the limiter is
\* exhausted, or the token is revoked, wrongly signed or expired
QueryRefused(q) ==
    \/ rateTokens = 0
    \/ q \in DOMAIN tokenBlacklist
    \/ ~GoodSignature(q)
    \/ ExpReached(q)

\* C17: a photo request whose ?token= is expired, revoked, wrongly signed or
\* refused by the exhausted limiter is answered 401 without the blob, even
\* when its Authorization header is valid; a response that carries a blob
\* comes only from a request whose ?token= is absent or accepted.
C17_BadQueryTokenNoBlob ==
    [][\A p \in Procs :
        /\ (http[p].pc = "photo" /\ Moved(p) /\ http[p].query # NoToken
                /\ QueryRefused(http[p].query)) =>
              lastResp'.status = 401 /\ lastResp'.data = ""
        /\ (Moved(p) /\ lastResp'.op = "photo" /\ lastResp'.data # "") =>
              /\ http[p].pc = "photo"
              /\ http[p].query = NoToken \/ ~QueryRefused(http[p].query)]_vars

\* a request for the stored photo that passed Middleware was refused because
\* the token in its ?token= is revoked
C17_Witness ==
    /\ lastResp = Resp("photo", 1, 401)
    /\ authRes.call = "validate_query"
    /\ authRes.res.err = "invalid_token"
    /\ authRes.tok \in DOMAIN tokenBlacklist
    /\ GoodSignature(authRes.tok)
    /\ Readable(1)

\* ---- C18 ----
\* the token carries custom claims whose role is the string admin
RoleIsAdmin(tok) ==
    /\ tok.custom.present
    /\ "role" \in DOMAIN tok.custom.kv
    /\ tok.custom.kv["role"] = "admin"

\* C18: the role gate in front of /api/users lets a request pass only when
\* the custom claims of its token carry role = "admin" as a string; any
\* other token (role user, no role, a role that is not a string, no custom
\* claims) is answered 403 and the user handler does not run.
C18_RoleGate ==
    [][\A p \in Procs :
        /\ (http[p].pc = "users" /\ Moved(p)) =>
              IF RoleIsAdmin(http[p].hdr)
              THEN lastResp' = NoResp /\ http'[p].pc = "user_handler"
              ELSE lastResp' = Resp("users", http[p].id, 403) /\ http'[p].pc = "idle"
        /\ (http[p].pc = "user_handler" /\ Moved(p)) => RoleIsAdmin(http[p].hdr)
        /\ (Moved(p) /\ lastResp'.op = "users" /\ lastResp'.status = 200) =>
              http[p].pc = "user_handler"]_vars

\* the role gate has refused an authenticated request
C18_Witness ==
    /\ lastResp = Resp("users", 1, 403)
    /\ \E m \in issued : m.custom \in {GoMap([k \in {"role"} |-> "user"]),
                                       GoMap([k \in {"role"} |-> JsonNumber])}

\* ---- C19 ----
HasActiveAdmin(tbl) == \E i \in DOMAIN tbl : tbl[i].role = "admin" /\ tbl[i].active
\* id is the one admin of the table that is active
LastActiveAdmin(tbl, id) ==
    /\ id \in DOMAIN tbl
    /\ tbl[id].role = "admin" /\ tbl[id].active
    /\ ~HasActiveAdmin(Remove(tbl, id))

\* C19: DELETE /api/users/{id} never removes the last active admin: a
\* delete step taken in a state with an active admin leaves one, and the
\* request that names the only active admin is answered 400 with the row
\* left in place.
C19_ActiveAdminRemains ==
    [][\A p \in Procs :
        /\ (DeleteUserRow(p) /\ HasActiveAdmin(users)) => HasActiveAdmin(users')
        /\ \A id \in UserIds :
              (DeleteUserList(p, id) /\ LastActiveAdmin(users, id)) =>
                  lastResp' = Resp("delete_user", 0, 400)]_vars

\* ---- C20 ----
UnknownUsername(username) == UserByUsername(users, username) = {}
WrongPassword(username, password) ==
    /\ ~UnknownUsername(username)
    /\ \A i \in UserByUsername(users, username) : users[i].password # password
\* the one response of a failed login
InvalidCredentials == [Resp("login", 0, 401) EXCEPT !.data = "Invalid credentials"]

\* C20: a login that fails because the username is unknown and a login that
\* fails because the password is wrong get the same HTTP response, status
\* and body: 401 "Invalid credentials".
C20_LoginIndistinguishable ==
    [][\A username \in Usernames, password \in Passwords \ {""} :
        (LoginHandler(username, password)
            /\ (UnknownUsername(username) \/ WrongPassword(username, password))) =>
           lastResp' = InvalidCredentials]_vars

\* a login has just failed in a state where one username has a row and the
\* other has none
C20_Witness ==
    /\ lastResp = InvalidCredentials
    /\ \E username \in Usernames : UnknownUsername(username)
    /\ \E username \in Usernames : ~UnknownUsername(username)

\* ---- C21 ----
\* the step belongs to the load of plugin host.idx
Loading == host.pc \in {"start", "wait_port", "health"} /\ host' # host /\ host'.pc # "exited"

\* C21: a plugin that prints its PORT line and answers the health check is
\* appended to the registry; a plugin whose PORT line does not come within
\* 5 s is not registered and its child process is killed; whatever the load
\* of a plugin ends with, the loader goes on to the next plugin and after the
\* last one the host serves.
C21_Handshake ==
    [][/\ (host.pc = "health" /\ Loading /\ children'[host.idx].health = "SERVING") =>
              Registry' = Append(Registry, host.idx)
       /\ (host.pc = "wait_port" /\ Loading /\ children'[host.idx].port = "timeout") =>
              /\ Registry' = Registry
              /\ children'[host.idx].proc = "killed"
       /\ Loading =>
              \/ host'.idx = host.idx /\ host'.pc \in {"wait_port", "health"}
              \/ host.idx < MaxPlugins /\ host' = [pc |-> "start", idx |-> host.idx + 1]
              \/ host.idx = MaxPlugins /\ host'.pc = "serving"]_vars

\* ---- C22 ----
\* C22: every plugin in the registry answered its health check with the
\* status SERVING.
C22_OnlyServingRegistered ==
    \A i \in 1..Len(Registry) : children[Registry[i]].health = "SERVING"

\* ---- C23 ----
\* C23: once the host has ended on a termination signal no child process it
\* spawned is still running.
C23_NoChildSurvives ==
    host.pc = "exited" => \A k \in PluginPaths : children[k].proc # "running"

\* ---- C24 ----
\* the calls of a fan-out that returned ok
OkCalls(calls) == {i \in 1..Len(calls) : ~calls[i].resp.err /\ calls[i].resp.ok}
FirstOkUser(calls) ==
    calls[CHOOSE i \in OkCalls(calls) : \A j \in OkCalls(calls) : i <= j].resp.user
\* slot r's request moves inside the fan-out
FanMoved(r) == fan[r].pc = "calling" /\ fan'[r] # fan[r]

\* C24: the fan-out stops at the first plugin that returns ok: no plugin is
\* called once one has accepted, and the X-User-Id passed downstream is the
\* user_id of that first accepting plugin.
C24_StopsAtFirstOk ==
    [][\A r \in AuthReqs :
        /\ (FanMoved(r) /\ fan'[r].pc = "calling") => OkCalls(fan[r].calls) = {}
        /\ (FanMoved(r) /\ fan'[r].pc = "idle" /\ OkCalls(fan[r].calls) # {}) =>
              lastResp'.data = FirstOkUser(fan[r].calls)]_vars

\* ---- C25 ----
\* C25: with a non-empty registry a plugin call that errors is skipped and
\* the fan-out goes on with the next plugin; the request is admitted exactly
\* when some plugin returned ok; when every plugin erred or refused, all of
\* them were tried and the answer is 401 without the downstream handler.
C25_FanoutErrors ==
    [][\A r \in AuthReqs :
        /\ (FanMoved(r) /\ fan'[r].pc = "calling") =>
              /\ fan'[r].i = fan[r].i + 1
              /\ Len(fan'[r].calls) = Len(fan[r].calls) + 1
              /\ lastResp' = NoResp
        /\ (FanMoved(r) /\ fan'[r].pc = "idle") =>
              IF OkCalls(fan[r].calls) # {}
              THEN lastResp'.status = 200
              ELSE /\ Len(fan[r].calls) = Len(Registry)
                   /\ lastResp' = Resp("plugin_auth", r, 401)]_vars

\* a request was admitted by the second plugin after the first one's call
\* had failed
C25_Witness ==
    /\ lastResp.status = 200
    /\ \E r \in AuthReqs :
        /\ lastResp.id = r
        /\ fan[r].pc = "idle"
        /\ Len(fan[r].calls) = 2
        /\ fan[r].calls[1].resp.err
        /\ fan[r].calls[2].resp.ok

\* the deliveries a goroutine of the pool has not settled yet
Processing == {d \in DOMAIN jobs : jobs[d].pc # "release"}
\* the deliveries settled with an Ack or a Nak
SettledDeliveries == {x.d : x \in settled}
\* a step that starts the processing of a delivery took a slot that was there
StartsWithSlot ==
    \A d \in DOMAIN jobs' \ DOMAIN jobs :
        /\ workerPool > 0
        /\ workerPool' = workerPool - 1
        /\ DOMAIN jobs' = DOMAIN jobs \cup {d}
\* a step that returns a slot returns one, for one delivery that is settled
\* and that holds no slot afterwards
ReturnsOnce ==
    workerPool' > workerPool =>
        /\ workerPool' = workerPool + 1
        /\ \E d \in DOMAIN jobs \cap SettledDeliveries : DOMAIN jobs' = DOMAIN jobs \ {d}
\* a delivery leaves the pool only by returning its slot
LeavesWithSlot ==
    \A d \in DOMAIN jobs \ DOMAIN jobs' : workerPool' = workerPool + 1

\* C26: at most NumWorkers deliveries are processed at once (the slots out
\* of the pool are exactly the deliveries in it), processing starts only by
\* taking a slot, and a slot comes back once per delivery, after its Ack or Nak
C26_PoolBound ==
    /\ [](/\ Cardinality(Processing) <= NumWorkers
          /\ workerPool \in 0..NumWorkers
          /\ workerPool + Cardinality(DOMAIN jobs) = NumWorkers)
    /\ [][StartsWithSlot /\ ReturnsOnce /\ LeavesWithSlot]_vars

\* every slot is taken, a further delivery waits in the callback for one,
\* and a slot has already been returned by a settled delivery
C26_Witness ==
    /\ workerPool = 0
    /\ Cardinality(Processing) = NumWorkers
    /\ callback # NoDelivery
    /\ SettledDeliveries \ DOMAIN jobs # {}

\* the waits between the attempts of one delivery, in seconds
BackoffSchedule == <<1, 2, 4>>
\* the attempts a..b of a run of attempts all failed
AllFailed(results, a, b) == \A k \in a..b : results[k] # "ok"
\* the attempts and waits of a delivery, settled or not, follow the schedule
AttemptsInOrder(results, waits) ==
    /\ Len(results) <= 4
    /\ Len(waits) <= 3
    /\ waits = SubSeq(BackoffSchedule, 1, Len(waits))
    /\ AllFailed(results, 1, Len(results) - 1)

\* C27: a delivery has at most 4 attempts, with waits of 1, 2, 4 seconds
\* between them; it is settled once, by an Ack right after its first
\* successful attempt or by a Nak after its 4th failure, and never by an Ack
\* when its last attempt failed
C27_Attempts ==
    /\ \A d \in DOMAIN jobs :
        /\ AttemptsInOrder(jobs[d].results, jobs[d].waits)
        /\ jobs[d].pc = "ack" => jobs[d].results[Len(jobs[d].results)] = "ok"
        /\ jobs[d].pc = "nak" => AllFailed(jobs[d].results, 1, 4) /\ Len(jobs[d].results) = 4
        /\ jobs[d].pc \in {"put", "merge", "process"} => Len(jobs[d].waits) = Len(jobs[d].results)
        /\ jobs[d].pc = "release" => d \in SettledDeliveries
    /\ \A x \in settled :
        /\ AttemptsInOrder(x.results, x.waits)
        /\ Len(x.results) >= 1
        /\ Len(x.waits) = Len(x.results) - 1
        /\ x.outcome = "ack" <=> x.results[Len(x.results)] = "ok"
        /\ x.outcome = "nak" <=> Len(x.results) = 4 /\ AllFailed(x.results, 1, 4)
        /\ \A y \in settled : y.d = x.d => y = x

\* one delivery was given up with a Nak after 4 failed attempts and the
\* waits 1, 2, 4, another was acked on a retry after the wait of 1
C27_Witness ==
    /\ \E x \in settled : x.outcome = "nak" /\ Len(x.results) = 4 /\ x.waits = <<1, 2, 4>>
    /\ \E x \in settled : x.outcome = "ack" /\ Len(x.results) = 2 /\ x.waits = <<1>>

\* the attempts of the deliveries, running or settled
AttemptRuns ==
    {[results |-> jobs[d].results, next |-> jobs[d].pc] : d \in DOMAIN jobs}
        \cup {[results |-> x.results, next |-> x.outcome] : x \in settled}

\* C28: an attempt that failed to decode the blob is the last attempt of its
\* delivery, and is followed neither by a wait for a retry nor by a Nak
C28_DecodeTerminal ==
    \A a \in AttemptRuns :
        \A k \in 1..Len(a.results) :
            a.results[k] = "decode" =>
                /\ k = Len(a.results)
                /\ a.next \notin {"sleep", "nak"}

\* the thumbnails of a row after the entry of size 512 is set to the key of
\* the photo's thumbnail, every other entry kept
With512(th, id) ==
    [k \in DOMAIN th \cup {"512"} |-> IF k = "512" THEN <<"thumb/512", id>> ELSE th[k]]
\* a step changes a row only by setting its entry of size 512, for a
\* delivery of that photo in the pool
OnlySets512 ==
    /\ DOMAIN photos' = DOMAIN photos
    /\ \A i \in DOMAIN photos :
        photos'[i] # photos[i] =>
            /\ \E d \in DOMAIN jobs : d.msg.id = i
            /\ photos'[i] = [photos[i] EXCEPT !.thumbnails = With512(photos[i].thumbnails, i)]
\* the rows of the photos with an acked delivery: one entry 512 with the
\* photo's thumbnail key, beside the entries the row had
AckedRows ==
    \A x \in settled :
        x.outcome = "ack" =>
            LET i == x.d.msg.id IN
            /\ photos[i].thumbnails["512"] = <<"thumb/512", i>>
            /\ DOMAIN photos[i].thumbnails = {"512"} \cup (IF i = 1 THEN {"256"} ELSE {})
            /\ i = 1 => photos[i].thumbnails["256"] = OtherThumb
            /\ photos[i].s3_key = PrimaryKey(i) /\ photos[i].mime = "image/png"
            /\ photos[i].status = "active" /\ photos[i].deleted_at = Null

\* C30: however often a message is processed (retries, redeliveries,
\* deliveries processed at once), each processing only sets the entry 512 of
\* its photo's thumbnails to thumb/512/<id>.jpg: the other entries, the other
\* fields and the other rows stay as they were
C30_Idempotent == []AckedRows /\ [][OnlySets512]_vars

\* the message of photo 1 was processed to the end and acked twice, and the
\* row has the entry 512 beside the entry 256 it had before
C30_Witness ==
    /\ Cardinality({x \in settled : x.outcome = "ack" /\ x.d.msg.id = 1}) = 2
    /\ DOMAIN photos[1].thumbnails = {"256", "512"}
    /\ photos[1].thumbnails["512"] = ThumbKey(1)
    /\ photos[2].thumbnails = <<>>

\* an upload of a decodable image has succeeded: its row and its blob are stored
UploadedImage(id) ==
    /\ id \in DOMAIN photos
    /\ id \notin SeedIds
    /\ HasImagePrefix(photos[id].mime)
    /\ photos[id].s3_key \in DOMAIN objects
    /\ Decodable(objects[photos[id].s3_key].data)
\* the row has the entry 512 and the blob it names is stored
HasThumbnail(id) ==
    /\ id \in DOMAIN photos
    /\ "512" \in DOMAIN photos[id].thumbnails
    /\ photos[id].thumbnails["512"] = <<"thumb/512", id>>
    /\ photos[id].thumbnails["512"] \in DOMAIN objects
\* the photo was deleted, or a deletion has removed its blob or the
\* thumbnail blob its row names
Deleted(id) ==
    id \in DOMAIN photos =>
        \/ photos[id].s3_key \notin DOMAIN objects
        \/ /\ "512" \in DOMAIN photos[id].thumbnails
           /\ photos[id].thumbnails["512"] \notin DOMAIN objects

\* C29: under fair scheduling of the publisher, the broker and the worker,
\* a stored upload of a decodable image leads to a row with thumbnails["512"]
\* naming a stored thumbnail blob, unless the photo is deleted first
C29_EventualThumbnail ==
    \A id \in PhotoIds : UploadedImage(id) ~> (HasThumbnail(id) \/ Deleted(id))

\* the request is inside ForEach's loop with a ValidateToken call to make:
\* its plugin RPC is in progress
RpcInFlight(r) == fan[r].pc = "calling" /\ fan[r].i <= Len(Registry)

\* C31: no request has a plugin RPC in progress while it holds the
\* registry mutex
C31_NoLockAcrossIO ==
    \A r \in AuthReqs : RpcInFlight(r) => mutex # r

\* the stored state and the requests in progress
StoredState == <<photos, objects, http, nextId>>
\* the upload of photo id was answered 201 and its publish has failed: no
\* goroutine is left for it and its event is not on the bus
PublishLost(id) ==
    /\ id \in DOMAIN photos
    /\ \A g \in publishers \cup published : ~(g.subject = "photo.uploaded" /\ g.id = id)

\* C32: a publish, failed or not, changes neither the stored state nor any
\* request's outcome, and its goroutine ends with the one call: the row and
\* the blob of an upload answered 201 stay, the event is published at most
\* once, and a goroutine exists only from the step that answered 201 or 204
C32_PublishSwallowed ==
    [][/\ \A g \in publishers :
            Publish(g) =>
                /\ StoredState' = StoredState
                /\ g \notin publishers'
                /\ g \notin published
                /\ published' \subseteq published \cup {g}
       /\ \A g \in publishers' \ publishers :
            /\ publishers' = publishers \cup {g}
            /\ g \notin published
            /\ lastResp'.id = g.id
            /\ lastResp'.status = IF g.subject = "photo.uploaded" THEN 201 ELSE 204
            /\ g.subject = "photo.uploaded" =>
                g.id \in DOMAIN photos' /\ g.s3_key \in DOMAIN objects']_vars

\* an upload was answered 201, its publish failed, and the row and the blob
\* are stored
C32_Witness ==
    \E id \in PhotoIds :
        /\ PublishLost(id)
        /\ photos[id].s3_key \in DOMAIN objects
        /\ faults > 0

\* ---- C33 ----
\* photo id is fully purged, or active with its primary blob stored
PurgedOrIntact(tbl, objs, id, key) ==
    \/ id \notin DOMAIN tbl /\ key \notin DOMAIN objs
    \/ id \in DOMAIN tbl /\ tbl[id].status = "active" /\ tbl[id].s3_key \in DOMAIN objs

\* C33: when a purge-single request ends and no store operation has failed,
\* whatever restore requests ran in between, its photo is either fully
\* purged (no row, no blob) or active with its primary blob intact
C33_PurgeVsRestore ==
    [][\A p \in Procs :
        (PurgeRow(p) /\ faults' = 0) =>
            PurgedOrIntact(photos', objects', http[p].id, http[p].key)]_vars

\* ---- C34 ----
\* C34: when an empty-trash request ends and no store call has returned an
\* error, whatever trash and restore requests ran in between, the rows it
\* deleted are rows whose primary blob is deleted, and the rows it left have
\* their primary blob
C34_EmptyTrashExact ==
    [][\A p \in Procs :
        (EmptyRows(p) /\ ~storeErr') =>
            /\ \A id \in DOMAIN photos \ DOMAIN photos' :
                    photos[id].s3_key \notin DOMAIN objects'
            /\ \A id \in DOMAIN photos' :
                    photos'[id].s3_key \in DOMAIN objects']_vars

\* ---- C35 ----
\* C35: with two admins and concurrent DELETE /api/users requests, an admin
\* row remains under every interleaving of their list and delete steps
C35_OneAdminRemains ==
    \E i \in DOMAIN users : users[i].role = "admin"

\* ---- C36 ----
\* C36: a validateToken of a token string that revokeToken was called with
\* at any earlier time does not succeed, whether the token carries an exp or
\* not and whether the sweeper has run or not
C36_RevokedForever ==
    (authRes.call = "validate" /\ authRes.tok \in revoked) => authRes.res.err # "ok"

\* ---- C37 ----
\* the tokens a successful password login of an admin has minted: sub is the
\* id of a row with the role admin, the custom claims are that row's
LoginMinted ==
    {m.tok : m \in {x \in issued :
                        /\ x.sub \in DOMAIN users
                        /\ users[x.sub].role = "admin"
                        /\ x.custom = LoginClaims(users[x.sub])}}

\* C37: a request the role gate lets through to a handler of /api/users
\* carries a token minted by the password login of an admin; the tokens a
\* caller gets from the unauthenticated endpoints do not pass the gate
C37_GateNeedsAdminLogin ==
    [][\A p \in Procs :
        (AdminMiddleware(p) /\ http'[p].pc = "user_handler") =>
            http[p].hdr \in LoginMinted]_vars

\* ---- C38 ----
\* C38: a login that is answered without a token (unknown user, wrong
\* password, inactive account) changes no user row, last_login included, and
\* mints nothing; a login that is answered with a token mints it for a user
\* whose row is active
C38_FailedLoginFrame ==
    [][\A username \in Usernames \cup {""}, password \in Passwords :
        LoginHandler(username, password) =>
            IF lastResp'.status # 200
            THEN users' = users /\ issued' = issued
            ELSE \A m \in issued' \ issued :
                    m.sub \in DOMAIN users /\ users[m.sub].active]_vars

\* ---- C39 ----
\* the step is the worker's Ack after the UPDATE of processMessage: the
\* worker is free again and the message is not handed back to the broker
AckAfterMerge == WorkerMerge /\ worker'.pc = "idle" /\ pending' = pending

\* C39: when the worker acks a photo.uploaded message of an image, the row
\* of its photo exists and its thumbnails["512"] is the key of the thumbnail
\* just written, whatever deletes ran before or during the processing
C39_AckMeansRow ==
    [][AckAfterMerge =>
        LET id == worker.msg.id IN
        /\ id \in DOMAIN photos'
        /\ "512" \in DOMAIN photos'[id].thumbnails
        /\ photos'[id].thumbnails["512"] = <<"thumb/512", id>>]_vars

\* ---- C40 ----
\* GET /api/photo/{id}: the row lookup goes on to the blob only for an
\* active row; for a trashed row the answer is 404 with no body
GetLookupStep ==
    \A p \in Procs, id \in PhotoIds :
        PhotoList(p, id) =>
            /\ http'[p].pc = "get_object" => id \in ActiveRows /\ http'[p].id = id
            /\ lastResp'.status = 200 => FALSE
            /\ (id \in TrashedRows /\ NoFault /\ lastResp'.status # 401) =>
                    /\ lastResp' = Resp("get", id, 404)
                    /\ lastResp'.data = NoResp.data
                    /\ http'[p].pc = "idle"
            /\ (id \in ActiveRows /\ NoFault /\ lastResp'.status # 401) =>
                    http'[p].pc = "get_object"
\* the blob streamed is the stored object of the row found active
GetStreamStep ==
    \A p \in Procs :
        (PhotoGetObject(p) /\ lastResp'.status = 200) =>
            /\ http[p].key \in DOMAIN objects
            /\ lastResp'.data = objects[http[p].key].data
\* a restore that is answered 200 makes the row active again
RestoreServesAgain ==
    \A id \in PhotoIds :
        (RestorePhoto(id) /\ lastResp'.status = 200) =>
            id \in TrashedRows /\ id \in DOMAIN photos' /\ photos'[id].status = "active"
\* DELETE /api/photo/{id} takes any row, whatever its status, removes the
\* blob and then the row
LegacyDeleteStep ==
    \A p \in Procs :
        /\ \A id \in PhotoIds :
              (DeleteGetPhoto(p, id) /\ NoFault /\ id \in DOMAIN photos) =>
                  /\ http'[p].pc = "delete_object"
                  /\ http'[p].key = photos[id].s3_key
        /\ (DeleteObject(p) /\ NoFault) =>
              http[p].key \notin DOMAIN objects' /\ http'[p].pc = "delete_row"
        /\ (DeleteRow(p) /\ NoFault /\ http[p].id \in DOMAIN photos) =>
              http[p].id \notin DOMAIN photos' /\ lastResp'.status = 204

\* C40: GET /api/photo/{id} serves a blob only for a row whose status is
\* active at its lookup: a trashed id is answered 404 with nothing streamed,
\* and is served again once restored; the legacy DELETE /api/photo/{id}
\* removes blob and row of active and trashed rows alike
C40_GetOnlyActive ==
    [][GetLookupStep /\ GetStreamStep /\ RestoreServesAgain /\ LegacyDeleteStep]_vars

\* a GET for an id whose row is trashed has just been answered 404
C40_Witness ==
    /\ lastResp.op = "get"
    /\ lastResp.status = 404
    /\ lastResp.id \in TrashedRows
    /\ photos[lastResp.id].s3_key \in DOMAIN objects

=============================================================================
